---- MODULE Spec2Model ----
(***************************************************************************)
(* Model of the topblock interaction engine: InteractionManager            *)
(* (src/src/game/InteractionManager.ts) and BlockObject                    *)
(* (src/unnamed/part_001), with the scene of GameScene.vue.                *)
(*                                                                         *)
(* Representation.                                                         *)
(*  - A THREE.Vector3 is a triple <<x, y, z>>.  World positions are real   *)
(*    numbers in the program; here they are fixed-point integers in units  *)
(*    of 1/Unit of a grid cell, so that Math.round is a real conversion.   *)
(*    Cell offsets are integers in grid cells, as in the catalog.          *)
(*  - performance.now() is the variable now, in ms.  It is read only as    *)
(*    the time elapsed since the start of a running animation; the model   *)
(*    moves its origin to the present whenever no animation is running.    *)
(*  - Fields the program leaves stale but never reads before overwriting   *)
(*    them (start times and axes of finished animations, the drag offset   *)
(*    after a drag, the gizmo angles after a gizmo drag) hold their        *)
(*    initial value while they are dead.                                   *)
(*  - What a pointer ray hits (gizmo ring, block, drag plane point, angle  *)
(*    on the rotation plane) and where the camera looks are inputs of the  *)
(*    events, drawn from small sets.                                       *)
(***************************************************************************)
EXTENDS Integers, Sequences, FiniteSets, TLC

\* null for an object, a vector or a list
Null == << >>
\* null for a reference to a block (block references are block ids)
NoBlock == -1

\* Fixed-point resolution of a real coordinate: Unit steps per grid cell.
Unit == 100
\* Resolution of the sine and cosine of an interpolated angle (1 / TrigScale).
TrigScale == Unit * Unit

----------------------------------------------------------------------------
(* Bounds of the model *)

\* Accepted rotateGroup calls in one run of the rotation specification.
MaxRotations == 2
\* startDrag calls in one run of the gesture specification.
MaxDrags == 1
\* Accepted rotateGroup calls in one run of the gesture specification.
MaxFlips == 1
\* Coordinates of the resting positions the scene specification starts from.
MaxCoord == 2
\* Cell offsets of the turn specification's shapes are within -MaxCell..MaxCell.
MaxCell == 1
\* The turns one run of the turn specification may start.
MaxTurns == 4

----------------------------------------------------------------------------
(* Vectors *)

Zero3 == <<0, 0, 0>>
VAdd(a, b) == <<a[1] + b[1], a[2] + b[2], a[3] + b[3]>>
VSub(a, b) == <<a[1] - b[1], a[2] - b[2], a[3] - b[3]>>
VScale(a, k) == <<a[1] * k, a[2] * k, a[3] * k>>
VDot(a, b) == a[1] * b[1] + a[2] * b[2] + a[3] * b[3]
VCross(a, b) == <<a[2] * b[3] - a[3] * b[2],
                  a[3] * b[1] - a[1] * b[3],
                  a[1] * b[2] - a[2] * b[1]>>

Abs(n) == IF n < 0 THEN -n ELSE n
Max(a, b) == IF a > b THEN a ELSE b
Min(a, b) == IF a < b THEN a ELSE b

\* Math.round on a fixed-point real: the nearest grid integer, halves up.
MathRound(m) == (2 * m + Unit) \div (2 * Unit)
\* The same, kept as a fixed-point real.
RoundReal(m) == MathRound(m) * Unit
\* n / d rounded to the nearest integer (d > 0).
RoundDiv(n, d) == (2 * n + d) \div (2 * d)

\* A grid vector as a fixed-point real vector.
ToReal(c) == VScale(c, Unit)

\* The six cardinal axes (InteractionManager.flipBlock's cardinals).
cardinals == << <<1, 0, 0>>, <<-1, 0, 0>>, <<0, 1, 0>>,
                <<0, -1, 0>>, <<0, 0, 1>>, <<0, 0, -1>> >>

\* Cosine and sine (in 1/TrigScale) of the angles an animation is sampled at.
CosOf(deg) == CASE deg = 0 -> TrigScale [] deg = 45 -> 7071 [] deg = 90 -> 0
SinOf(deg) == CASE deg = 0 -> 0 [] deg = 45 -> 7071 [] deg = 90 -> TrigScale

\* Vector3.applyQuaternion for the quaternion setFromAxisAngle(axis, deg):
\* v cos + (axis x v) sin + axis (axis . v)(1 - cos), on fixed-point reals.
applyQuaternion(v, axis, deg) ==
    LET c == CosOf(deg)
        s == SinOf(deg)
        kxv == VCross(axis, v)
        kv == VDot(axis, v)
    IN  << RoundDiv(v[1] * c + kxv[1] * s + axis[1] * kv * (TrigScale - c), TrigScale),
           RoundDiv(v[2] * c + kxv[2] * s + axis[2] * kv * (TrigScale - c), TrigScale),
           RoundDiv(v[3] * c + kxv[3] * s + axis[3] * kv * (TrigScale - c), TrigScale) >>

\* A cell offset turned an eighth about axis and rounded (used to test C11).
RotateCellEighth(cell, axis) ==
    LET v == applyQuaternion(ToReal(cell), axis, 45)
    IN  <<MathRound(v[1]), MathRound(v[2]), MathRound(v[3])>>

\* A cell offset turned a quarter about an axis through the cell (1, 0, 0)
\* (used to test C39).
RotateCellOffCentre(cell, axis) ==
    LET v == applyQuaternion(ToReal(<<cell[1] - 1, cell[2], cell[3]>>), axis, 90)
    IN  <<MathRound(v[1]) + 1, MathRound(v[2]), MathRound(v[3])>>

\* A cell offset turned a quarter about axis with its component along the
\* axis dropped (used to test C38).
RotateCellFlattened(cell, axis) == VCross(axis, cell)

\* A cell offset turned a quarter about axis and rounded, as rotateBlock and
\* rotateGroup compute it: [Math.round(v.x), Math.round(v.y), Math.round(v.z)].
RotateCell(cell, axis) ==
    LET v == applyQuaternion(ToReal(cell), axis, 90)
    IN  <<MathRound(v[1]), MathRound(v[2]), MathRound(v[3])>>

\* f mapped over a sequence (Array.map).
SeqMap(F(_), s) == [i \in 1..Len(s) |-> F(s[i])]
Range(s) == {s[i] : i \in 1..Len(s)}

----------------------------------------------------------------------------
(* The block catalog and the scene *)

\* blocks.ts: the cell offsets of the catalog entries, by id.
BLOCK_DEFINITIONS ==
    [id \in 0..6 |->
        CASE id = 0 -> << <<0, 0, 0>>, <<-1, 0, 0>>, <<0, 0, 1>> >>
          [] id = 1 -> << <<0, 0, 0>>, <<-1, 0, 0>>, <<0, 0, 1>>, <<1, 0, 1>> >>
          [] id = 2 -> << <<0, 0, 0>>, <<-1, 0, 0>>, <<1, 0, 0>>, <<1, 0, 1>> >>
          [] id = 3 -> << <<0, 0, 0>>, <<-1, 0, 0>>, <<1, 0, 0>>, <<0, 0, 1>> >>
          [] id = 4 -> << <<0, 0, 0>>, <<-1, 0, 0>>, <<0, 0, 1>>, <<0, 1, 0>> >>
          [] id = 5 -> << <<0, 0, 0>>, <<-1, 0, 0>>, <<0, 0, 1>>, <<-1, 1, 0>> >>
          [] id = 6 -> << <<0, 0, 0>>, <<-1, 0, 0>>, <<0, 0, 1>>, <<0, 1, 1>> >>]

\* GameScene.vue: the start position of catalog entry id (grid cells).
startPositions ==
    [id \in 0..6 |->
        CASE id = 0 -> <<0, 0, 0>>
          [] id = 1 -> <<3, 0, 0>>
          [] id = 2 -> <<-3, 0, 0>>
          [] id = 3 -> <<0, 0, 3>>
          [] id = 4 -> <<0, 0, -3>>
          [] id = 5 -> <<3, 0, 3>>
          [] id = 6 -> <<-3, 0, -3>>]

\* BlockObject.ROTATION_DURATION, ms.
ROTATION_DURATION == 200

----------------------------------------------------------------------------
(* BlockObject *)

\* BlockObject.snapToGrid
snapToGrid(o) ==
    [o EXCEPT !.position = << RoundReal(o.position[1]),
                              Max(0, RoundReal(o.position[2])),
                              RoundReal(o.position[3]) >>]

\* BlockObject.constructor, then position.set(start) and snapToGrid()
\* (GameScene.vue onMounted).
NewBlock(cells, start) ==
    snapToGrid(
      [ cells |-> cells,
        position |-> ToReal(start),
        selected |-> FALSE,
        isAnimating |-> FALSE,
        animStartTime |-> 0,
        animTargetQuat |-> Null,
        pendingCells |-> Null,
        posAnimating |-> FALSE,
        posAnimStartPos |-> Null,
        posAnimTargetPos |-> Null,
        posAnimPivot |-> Null,
        posAnimAxis |-> Null,
        posAnimStartTime |-> 0 ])

\* BlockObject.animating
animating(o) == o.isAnimating \/ o.posAnimating

\* BlockObject.getWorldCellPositions: the rounded world cell of each offset.
WorldCell(o, cell) ==
    << MathRound(o.position[1] + cell[1] * Unit),
       MathRound(o.position[2] + cell[2] * Unit),
       MathRound(o.position[3] + cell[3] * Unit) >>

getWorldCellPositions(o) == [i \in 1..Len(o.cells) |-> WorldCell(o, o.cells[i])]

\* BlockObject.setSelected
setSelected(o, sel) == [o EXCEPT !.selected = sel]

\* BlockObject.animatePositionTo(target, pivot, axis) at clock t.
animatePositionTo(o, target, pivot, axis, t) ==
    [o EXCEPT !.posAnimStartPos = o.position,
              !.posAnimTargetPos = target,
              !.posAnimPivot = pivot,
              !.posAnimAxis = axis,
              !.posAnimStartTime = t,
              !.posAnimating = TRUE]

\* A rotateBlock that commits the turned cells when the animation starts
\* (used to test C32).
rotateBlockCommitting(o, axis, t) ==
    IF o.isAnimating THEN o
    ELSE [o EXCEPT !.cells = [i \in 1..Len(o.cells) |-> RotateCell(o.cells[i], axis)],
                   !.pendingCells = [i \in 1..Len(o.cells) |-> RotateCell(o.cells[i], axis)],
                   !.animTargetQuat = axis,
                   !.animStartTime = t,
                   !.isAnimating = TRUE]

\* A rotateBlock that stacks a rotation on the one in progress (used to test
\* C31).
rotateBlockStacking(o, axis, t) ==
    [o EXCEPT !.pendingCells = [i \in 1..Len(o.cells) |-> RotateCell(o.cells[i], axis)],
              !.animTargetQuat = axis,
              !.animStartTime = t,
              !.isAnimating = TRUE]

\* BlockObject.rotateBlock(axis) at clock t.
rotateBlock(o, axis, t) ==
    IF o.isAnimating THEN o
    ELSE [o EXCEPT !.pendingCells = [i \in 1..Len(o.cells) |-> RotateCell(o.cells[i], axis)],
                   !.animTargetQuat = axis,
                   !.animStartTime = t,
                   !.isAnimating = TRUE]

\* t = Math.min(elapsed / ROTATION_DURATION, 1), in 1/1000.
AnimT(elapsed) == Min((elapsed * 1000) \div ROTATION_DURATION, 1000)

\* ease = t < 0.5 ? 2 t t : 1 - (-2 t + 2)^2 / 2, in 1/1000.
Ease(t) ==
    IF t < 500 THEN (2 * t * t) \div 1000
    ELSE 1000 - (((2000 - 2 * t) * (2000 - 2 * t)) \div 2000)

\* ease * (Math.PI / 2), in degrees.
EaseAngle(ease) == (ease * 90) \div 1000

\* Vector3.lerpVectors
lerpVectors(a, b, ease) ==
    << a[1] + RoundDiv((b[1] - a[1]) * ease, 1000),
       a[2] + RoundDiv((b[2] - a[2]) * ease, 1000),
       a[3] + RoundDiv((b[3] - a[3]) * ease, 1000) >>

\* The position half of BlockObject.updateAnimation at clock t.
UpdatePositionAnimation(o, t) ==
    IF ~(o.posAnimating /\ o.posAnimStartPos # Null /\ o.posAnimTargetPos # Null)
    THEN o
    ELSE
      LET tt == AnimT(t - o.posAnimStartTime)
          ease == Ease(tt)
          moved ==
            IF o.posAnimPivot # Null /\ o.posAnimAxis # Null
            THEN VAdd(o.posAnimPivot,
                      applyQuaternion(VSub(o.posAnimStartPos, o.posAnimPivot),
                                      o.posAnimAxis, EaseAngle(ease)))
            ELSE lerpVectors(o.posAnimStartPos, o.posAnimTargetPos, ease)
      IN  IF tt >= 1000
          THEN [o EXCEPT !.position = o.posAnimTargetPos,
                         !.posAnimating = FALSE,
                         !.posAnimStartPos = Null,
                         !.posAnimTargetPos = Null,
                         !.posAnimPivot = Null,
                         !.posAnimAxis = Null,
                         !.posAnimStartTime = 0]
          ELSE [o EXCEPT !.position = moved]

\* An orientation animation that ends at half the duration (used to test
\* C30).
UpdateOrientationAnimationEarly(o, t) ==
    IF ~o.isAnimating THEN o
    ELSE
      LET tt == AnimT(t - o.animStartTime)
      IN  IF 2 * tt >= 1000
          THEN [o EXCEPT !.isAnimating = FALSE,
                         !.cells = IF o.pendingCells # Null THEN o.pendingCells ELSE o.cells,
                         !.pendingCells = Null,
                         !.animTargetQuat = Null,
                         !.animStartTime = 0]
          ELSE o

\* The orientation half of BlockObject.updateAnimation at clock t.
UpdateOrientationAnimation(o, t) ==
    IF ~o.isAnimating THEN o
    ELSE
      LET tt == AnimT(t - o.animStartTime)
      IN  IF tt >= 1000
          THEN [o EXCEPT !.isAnimating = FALSE,
                         !.cells = IF o.pendingCells # Null THEN o.pendingCells ELSE o.cells,
                         !.pendingCells = Null,
                         !.animTargetQuat = Null,
                         !.animStartTime = 0]
          ELSE o

\* BlockObject.updateAnimation at clock t.
updateAnimation(o, t) == UpdateOrientationAnimation(UpdatePositionAnimation(o, t), t)

\* BlockObject.getWorldCenter: the mean of the cell centres plus the position.
RECURSIVE SumCells(_, _)
SumCells(cells, i) ==
    IF i > Len(cells) THEN Zero3
    ELSE VAdd(VAdd(ToReal(cells[i]), <<0, Unit \div 2, 0>>), SumCells(cells, i + 1))

getWorldCenter(o) ==
    LET sum == SumCells(o.cells, 1)
        n == Len(o.cells)
    IN  VAdd(<<RoundDiv(sum[1], n), RoundDiv(sum[2], n), RoundDiv(sum[3], n)>>, o.position)

\* BlockObject.getCenterCellWorldPos
getCenterCellWorldPos(o) ==
    VAdd(VAdd(ToReal(o.cells[1]), <<0, Unit \div 2, 0>>), o.position)

----------------------------------------------------------------------------
(* InteractionManager: state *)

(* A world w is the whole program state a handler reads and writes:        *)
(*   w.blocks  InteractionManager.blocks, the ids in addBlock order         *)
(*   w.block   the BlockObject of each id                                   *)
(*   w.im      the fields of the InteractionManager                         *)
(*   w.now     performance.now()                                            *)
(*   w.sel     the onSelectChange calls made by the handler, in order       *)
(*   w.col     the onCollisionChange calls made by the handler, in order    *)
(*   w.threw   the handler ended by raising a TypeError                     *)
(*   w.nRot, w.nDrag   the rotations and drags started so far               *)

\* The InteractionManager after its constructor (field initialisers, lines 9-48).
NewInteractionManager ==
    [ selectedGroup |-> << >>,
      centerBlock |-> NoBlock,
      mouseDownPos |-> <<0, 0>>,
      pendingBlock |-> NoBlock,
      hasMovedPastThreshold |-> FALSE,
      isDragging |-> FALSE,
      dragTarget |-> NoBlock,
      dragPlane |-> Null,
      dragOffset |-> Zero3,
      dragTargetStartPos |-> Zero3,
      groupDragStartPositions |-> << >>,
      isGroupDrag |-> FALSE,
      gizmoVisible |-> FALSE,
      isGizmoDragging |-> FALSE,
      gizmoDragAxis |-> Null,
      gizmoDragPlane |-> Null,
      gizmoDragStartAngle |-> 0,
      gizmoAccumulatedAngle |-> 0,
      controlsEnabled |-> TRUE,
      lastCollidingIdsStr |-> << >> ]

\* InteractionManager.mouseMoveThreshold, device pixels.
mouseMoveThreshold == 3

\* A loop "for (const b of seq) block[b] = F(block[b])" over the blocks of seq.
RECURSIVE ForEachBlock(_, _, _, _)
ForEachBlock(F(_), blk, seq, i) ==
    IF i > Len(seq) THEN blk
    ELSE ForEachBlock(F, [blk EXCEPT ![seq[i]] = F(blk[seq[i]])], seq, i + 1)

Deselected(o) == setSelected(o, FALSE)
Selected(o) == setSelected(o, TRUE)

----------------------------------------------------------------------------
(* InteractionManager: selection *)

\* InteractionManager.notifySelectChange
notifySelectChange(w) ==
    [w EXCEPT !.sel = Append(w.sel, [ids |-> w.im.selectedGroup,
                                     centerId |-> w.im.centerBlock])]

\* InteractionManager.selectGroupWithCenter
selectGroupWithCenter(w, group, center) ==
    LET cleared == ForEachBlock(Deselected, w.block, w.im.selectedGroup, 1)
        marked == ForEachBlock(Selected, cleared, group, 1)
    IN  notifySelectChange(
          [w EXCEPT !.block = marked,
                    !.im.selectedGroup = group,
                    !.im.centerBlock = center,
                    !.im.gizmoVisible = TRUE])

\* A deselectAll that leaves the center as it is (used to test C24).
deselectAllKeepingCenter(w) ==
    notifySelectChange(
      [w EXCEPT !.block = ForEachBlock(Deselected, w.block, w.im.selectedGroup, 1),
                !.im.selectedGroup = << >>,
                !.im.gizmoVisible = FALSE])

\* A deselectAll that leaves the gizmo as it is (used to test C17).
deselectAllKeepingGizmo(w) ==
    notifySelectChange(
      [w EXCEPT !.block = ForEachBlock(Deselected, w.block, w.im.selectedGroup, 1),
                !.im.selectedGroup = << >>,
                !.im.centerBlock = NoBlock])

\* InteractionManager.deselectAll
deselectAll(w) ==
    notifySelectChange(
      [w EXCEPT !.block = ForEachBlock(Deselected, w.block, w.im.selectedGroup, 1),
                !.im.selectedGroup = << >>,
                !.im.centerBlock = NoBlock,
                !.im.gizmoVisible = FALSE])

----------------------------------------------------------------------------
(* InteractionManager: adjacency and connectivity *)

\* An adjacency that looks only one way along each axis: some cell of b is
\* the next cell after a cell of a (used to test C9).
areAdjacentOneWay(a, b) ==
    LET cellsA == getWorldCellPositions(a)
        cellsB == getWorldCellPositions(b)
    IN  \E i \in 1..Len(cellsA) : \E j \in 1..Len(cellsB) :
            VSub(cellsB[j], cellsA[i]) \in {<<1, 0, 0>>, <<0, 1, 0>>, <<0, 0, 1>>}

\* InteractionManager.areAdjacent, on two BlockObjects.
areAdjacent(a, b) ==
    LET cellsA == getWorldCellPositions(a)
        cellsB == getWorldCellPositions(b)
    IN  \E i \in 1..Len(cellsA) : \E j \in 1..Len(cellsB) :
            Abs(cellsA[i][1] - cellsB[j][1]) + Abs(cellsA[i][2] - cellsB[j][2])
              + Abs(cellsA[i][3] - cellsB[j][3]) = 1

\* An inner loop that marks the neighbours visited without queueing them, so
\* that only the seed's own neighbours are found (used to test C8).
RECURSIVE VisitNeighboursOfSeedOnly(_, _, _, _)
VisitNeighboursOfSeedOnly(w, current, s, i) ==
    IF i > Len(w.blocks) THEN s
    ELSE
      LET other == w.blocks[i]
      IN  IF other \in Range(s.visited) THEN VisitNeighboursOfSeedOnly(w, current, s, i + 1)
          ELSE IF areAdjacent(w.block[current], w.block[other])
          THEN VisitNeighboursOfSeedOnly(w, current,
                                         [visited |-> Append(s.visited, other),
                                          queue |-> s.queue], i + 1)
          ELSE VisitNeighboursOfSeedOnly(w, current, s, i + 1)

\* The inner loop of findConnectedBlocks: for (const other of this.blocks).
\* s = [visited, queue], both in insertion order.
RECURSIVE VisitNeighbours(_, _, _, _)
VisitNeighbours(w, current, s, i) ==
    IF i > Len(w.blocks) THEN s
    ELSE
      LET other == w.blocks[i]
      IN  IF other \in Range(s.visited) THEN VisitNeighbours(w, current, s, i + 1)
          ELSE IF areAdjacent(w.block[current], w.block[other])
          THEN VisitNeighbours(w, current,
                               [visited |-> Append(s.visited, other),
                                queue |-> Append(s.queue, other)], i + 1)
          ELSE VisitNeighbours(w, current, s, i + 1)

\* The outer loop of findConnectedBlocks: while (queue.length > 0).
RECURSIVE Traverse(_, _)
Traverse(w, s) ==
    IF Len(s.queue) = 0 THEN s.visited
    ELSE Traverse(w, VisitNeighbours(w, Head(s.queue),
                                     [visited |-> s.visited, queue |-> Tail(s.queue)], 1))

\* A search that finds the seed alone (used to test C10).
findSeedOnly(w, b) == <<b>>

\* InteractionManager.findConnectedBlocks: Array.from(visited).
findConnectedBlocks(w, b) == Traverse(w, [visited |-> <<b>>, queue |-> <<b>>])

\* A selectBlockById that clears the selection when no block has the id
\* (used to test C23).
selectBlockByIdOrDeselect(w, id) ==
    IF id \in Range(w.blocks)
    THEN selectGroupWithCenter(w, findConnectedBlocks(w, id), id)
    ELSE deselectAll(w)

\* InteractionManager.selectBlockById
selectBlockById(w, id) ==
    IF id \in Range(w.blocks)
    THEN selectGroupWithCenter(w, findConnectedBlocks(w, id), id)
    ELSE w

----------------------------------------------------------------------------
(* InteractionManager: collision detection *)

\* cellMap.get(key).push(id), creating the entry when the key is new.
CellMapPush(cellMap, key, id) ==
    IF key \in DOMAIN cellMap
    THEN [cellMap EXCEPT ![key] = Append(@, id)]
    ELSE cellMap @@ (key :> <<id>>)

RECURSIVE CellMapOfCells(_, _, _, _)
CellMapOfCells(cellMap, id, cells, j) ==
    IF j > Len(cells) THEN cellMap
    ELSE CellMapOfCells(CellMapPush(cellMap, cells[j], id), id, cells, j + 1)

RECURSIVE CellMapOfBlocks(_, _, _)
CellMapOfBlocks(w, cellMap, i) ==
    IF i > Len(w.blocks) THEN cellMap
    ELSE CellMapOfBlocks(w,
           CellMapOfCells(cellMap, w.blocks[i],
                          getWorldCellPositions(w.block[w.blocks[i]]), 1),
           i + 1)

\* A detectCollisions that reports only the first occupant of a shared cell
\* (used to test C5).
detectFirstOccupants(w) ==
    LET cellMap == CellMapOfBlocks(w, << >>, 1)
    IN  { cellMap[key][1] : key \in {k \in DOMAIN cellMap : Len(cellMap[k]) > 1} }

\* InteractionManager.detectCollisions: the ids of every cell with more than
\* one occupant.
detectCollisions(w) ==
    LET cellMap == CellMapOfBlocks(w, << >>, 1)
    IN  UNION { Range(cellMap[key]) : key \in {k \in DOMAIN cellMap : Len(cellMap[k]) > 1} }

\* Array.from(set).sort().join(','): the ids in ascending order (the catalog
\* ids are single digits, so the string order is the numeric order).
RECURSIVE SortedIds(_)
SortedIds(S) ==
    IF S = {} THEN << >>
    ELSE LET m == CHOOSE x \in S : \A y \in S : x <= y
         IN  <<m>> \o SortedIds(S \ {m})

\* A checkCollisions without the animation guard (used to test C6).
checkCollisionsWhileAnimating(w) ==
    LET colliding == detectCollisions(w)
        str == SortedIds(colliding)
    IN  IF str # w.im.lastCollidingIdsStr
        THEN [w EXCEPT !.im.lastCollidingIdsStr = str,
                       !.col = Append(w.col, colliding)]
        ELSE w

\* A checkCollisions that reports every frame (used to test C7).
checkCollisionsEveryFrame(w) ==
    IF \E i \in 1..Len(w.blocks) : animating(w.block[w.blocks[i]]) THEN w
    ELSE
      LET colliding == detectCollisions(w)
      IN  [w EXCEPT !.im.lastCollidingIdsStr = SortedIds(colliding),
                    !.col = Append(w.col, colliding)]

\* A checkCollisions that reports overlaps and never their end (used to
\* test C37).
checkCollisionsOverlapsOnly(w) ==
    IF \E i \in 1..Len(w.blocks) : animating(w.block[w.blocks[i]]) THEN w
    ELSE
      LET colliding == detectCollisions(w)
          str == SortedIds(colliding)
      IN  IF str # w.im.lastCollidingIdsStr /\ colliding # {}
          THEN [w EXCEPT !.im.lastCollidingIdsStr = str,
                         !.col = Append(w.col, colliding)]
          ELSE w

\* InteractionManager.checkCollisions
checkCollisions(w) ==
    IF \E i \in 1..Len(w.blocks) : animating(w.block[w.blocks[i]]) THEN w
    ELSE
      LET colliding == detectCollisions(w)
          str == SortedIds(colliding)
      IN  IF str # w.im.lastCollidingIdsStr
          THEN [w EXCEPT !.im.lastCollidingIdsStr = str,
                         !.col = Append(w.col, colliding)]
          ELSE w

\* An update that scans for collisions before it advances the animations
\* (used to test C29).
updateScanningFirst(w) ==
    LET scanned == checkCollisions(w)
    IN  [scanned EXCEPT !.block =
            [b \in DOMAIN w.block |->
               IF b \in Range(w.blocks) THEN updateAnimation(w.block[b], w.now)
               ELSE w.block[b]]]

\* InteractionManager.update: the render callback, at clock w.now.
update(w) ==
    LET moved == [w EXCEPT !.block =
                     [b \in DOMAIN w.block |->
                        IF b \in Range(w.blocks) THEN updateAnimation(w.block[b], w.now)
                        ELSE w.block[b]]]
    IN  checkCollisions(moved)

----------------------------------------------------------------------------
(* InteractionManager: drag *)

\* InteractionManager.chooseDragPlane: the axis-aligned plane through the
\* block's centre whose normal has the largest |normal . camDir|; the first of
\* x, y, z wins a tie (dot > bestDot).  A plane is its normal's index and the
\* centre's coordinate along it.
chooseDragPlane(w, b, camDir) ==
    LET center == getWorldCenter(w.block[b])
        best == CHOOSE i \in 1..3 :
                  /\ \A j \in 1..3 : Abs(camDir[j]) <= Abs(camDir[i])
                  /\ \A j \in 1..(i - 1) : Abs(camDir[j]) < Abs(camDir[i])
    IN  [axis |-> best, at |-> center[best]]

\* A startDrag that also makes the dragged block the selection, which the
\* program does not do (used to test C4).
startDragSelecting(w, b, camDir, planeIntersect) ==
    selectGroupWithCenter(
      [w EXCEPT !.im.isDragging = TRUE,
                !.im.dragTarget = b,
                !.im.isGroupDrag = b \in Range(w.im.selectedGroup),
                !.im.dragPlane = chooseDragPlane(w, b, camDir),
                !.im.dragTargetStartPos = w.block[b].position,
                !.im.dragOffset = VSub(w.block[b].position, planeIntersect),
                !.nDrag = w.nDrag + 1],
      <<b>>, b)

\* InteractionManager.startDrag.  planeIntersect is the point where the
\* pointer ray meets the drag plane (an input: a point of the plane).
startDrag(w, b, camDir, planeIntersect) ==
    LET group == b \in Range(w.im.selectedGroup)
    IN  [w EXCEPT !.im.isDragging = TRUE,
                  !.im.dragTarget = b,
                  !.im.gizmoVisible = FALSE,
                  !.im.isGroupDrag = group,
                  !.im.dragPlane = chooseDragPlane(w, b, camDir),
                  !.im.dragTargetStartPos = w.block[b].position,
                  !.im.groupDragStartPositions =
                      IF group
                      THEN [m \in Range(w.im.selectedGroup) |-> w.block[m].position]
                      ELSE << >>,
                  !.im.dragOffset = VSub(w.block[b].position, planeIntersect),
                  !.nDrag = w.nDrag + 1]

\* The group branch of the drag in onPointerMove:
\* for (const b of this.selectedGroup) b.position.set(start + delta, y >= 0).
\* A member without a recorded start position raises a TypeError, which ends
\* the handler after the members before it were moved.
RECURSIVE MoveGroup(_, _, _)
MoveGroup(w, delta, i) ==
    IF i > Len(w.im.selectedGroup) THEN w
    ELSE
      LET b == w.im.selectedGroup[i]
      IN  IF b \notin DOMAIN w.im.groupDragStartPositions
          THEN [w EXCEPT !.threw = TRUE]
          ELSE
            LET startPos == w.im.groupDragStartPositions[b]
            IN  MoveGroup([w EXCEPT !.block[b].position =
                                        << startPos[1] + delta[1],
                                           Max(0, startPos[2] + delta[2]),
                                           startPos[3] + delta[3] >>],
                          delta, i + 1)

\* The block-drag branch of onPointerMove for the ray/plane intersection
\* point intersectPoint (Null when the ray misses the plane).
DragTo(w, intersectPoint) ==
    IF intersectPoint = Null THEN w
    ELSE
      LET newPos == VAdd(intersectPoint, w.im.dragOffset)
          snapped == << RoundReal(newPos[1]),
                        Max(0, RoundReal(newPos[2])),
                        RoundReal(newPos[3]) >>
      IN  IF w.im.isGroupDrag
          THEN MoveGroup(w, VSub(snapped, w.im.dragTargetStartPos), 1)
          ELSE [w EXCEPT !.block[w.im.dragTarget].position = snapped]

----------------------------------------------------------------------------
(* InteractionManager: group rotation *)

\* A target that leaves every member where it is (used to test C12).
RotationTargetInPlace(w, b, center, pivot, axis) == w.block[b].position

\* The target position of member b before the floor adjustment.
RotationTarget(w, b, center, pivot, axis) ==
    IF b = center THEN w.block[b].position
    ELSE
      LET relPos == applyQuaternion(VSub(w.block[b].position, pivot), axis, 90)
      IN  VAdd(pivot, <<RoundReal(relPos[1]), RoundReal(relPos[2]), RoundReal(relPos[3])>>)

\* newPos.y + Math.round(v.y) of every cell of member b, turned about axis.
RotatedWorldYs(w, b, newPos, axis) ==
    { newPos[2] + Unit * MathRound(applyQuaternion(ToReal(w.block[b].cells[j]), axis, 90)[2])
        : j \in 1..Len(w.block[b].cells) }

\* A floor offset that is never applied (used to test C2).
NoFloorOffset(ys) == 0

\* yOffset = minWorldY < 0 ? -minWorldY : 0 (minWorldY starts at Infinity).
FloorOffset(ys) ==
    IF ys = {} THEN 0
    ELSE LET minWorldY == CHOOSE m \in ys : \A y \in ys : m <= y
         IN  IF minWorldY < 0 THEN -minWorldY ELSE 0

\* A second loop that animates the position of every member, moved or not
\* (used to test C22).
RECURSIVE LaunchRotationsAlwaysMoving(_, _, _, _, _, _)
LaunchRotationsAlwaysMoving(w, targets, yOffset, pivot, axis, i) ==
    IF i > Len(w.im.selectedGroup) THEN w
    ELSE
      LET b == w.im.selectedGroup[i]
          turned == rotateBlock(w.block[b], axis, w.now)
          pos == <<targets[b][1], targets[b][2] + yOffset, targets[b][3]>>
      IN  LaunchRotationsAlwaysMoving(
            [w EXCEPT !.block[b] = animatePositionTo(turned, pos, pivot, axis, w.now)],
            targets, yOffset, pivot, axis, i + 1)

\* The second loop of rotateGroup: rotateBlock, then animatePositionTo when
\* the adjusted target differs from the current position.
RECURSIVE LaunchRotations(_, _, _, _, _, _)
LaunchRotations(w, targets, yOffset, pivot, axis, i) ==
    IF i > Len(w.im.selectedGroup) THEN w
    ELSE
      LET b == w.im.selectedGroup[i]
          turned == rotateBlock(w.block[b], axis, w.now)
          pos == <<targets[b][1], targets[b][2] + yOffset, targets[b][3]>>
          launched == IF pos # turned.position
                      THEN animatePositionTo(turned, pos, pivot, axis, w.now)
                      ELSE turned
      IN  LaunchRotations([w EXCEPT !.block[b] = launched],
                          targets, yOffset, pivot, axis, i + 1)

\* A rotateGroup without the test for animating members (used to test C25).
rotateGroupUnguarded(w, axis) ==
    IF w.im.centerBlock = NoBlock THEN w
    ELSE
      LET center == w.im.centerBlock
          pivot == w.block[center].position
          members == Range(w.im.selectedGroup)
          targets == [b \in members |-> RotationTarget(w, b, center, pivot, axis)]
          ys == UNION { RotatedWorldYs(w, b, targets[b], axis) : b \in members }
          yOffset == FloorOffset(ys)
      IN  LaunchRotations([w EXCEPT !.nRot = w.nRot + 1],
                          targets, yOffset, pivot, axis, 1)

\* A rotateGroup that first replaces the selection group by the connected
\* blocks of the center as they stand now (used to test C21).
rotateGroupRecomputing(w, axis) ==
    IF w.im.centerBlock = NoBlock THEN w
    ELSE IF \E i \in 1..Len(w.im.selectedGroup) : animating(w.block[w.im.selectedGroup[i]])
    THEN w
    ELSE
      LET center == w.im.centerBlock
          v == [w EXCEPT !.im.selectedGroup = findConnectedBlocks(w, center)]
          pivot == v.block[center].position
          members == Range(v.im.selectedGroup)
          targets == [b \in members |-> RotationTarget(v, b, center, pivot, axis)]
          ys == UNION { RotatedWorldYs(v, b, targets[b], axis) : b \in members }
          yOffset == FloorOffset(ys)
      IN  LaunchRotations([v EXCEPT !.nRot = v.nRot + 1],
                          targets, yOffset, pivot, axis, 1)

\* InteractionManager.rotateGroup
rotateGroup(w, axis) ==
    IF w.im.centerBlock = NoBlock THEN w
    ELSE IF \E i \in 1..Len(w.im.selectedGroup) : animating(w.block[w.im.selectedGroup[i]])
    THEN w
    ELSE
      LET center == w.im.centerBlock
          pivot == w.block[center].position
          members == Range(w.im.selectedGroup)
          targets == [b \in members |-> RotationTarget(w, b, center, pivot, axis)]
          ys == UNION { RotatedWorldYs(w, b, targets[b], axis) : b \in members }
          yOffset == FloorOffset(ys)
      IN  LaunchRotations([w EXCEPT !.nRot = w.nRot + 1],
                          targets, yOffset, pivot, axis, 1)

\* InteractionManager.flipBlock: the camera-relative axis of the direction,
\* snapped to the nearest cardinal (the first of cardinals wins a tie).
FlipAxis(direction, camDir) ==
    LET forward == <<camDir[1], 0, camDir[3]>>
        up == <<0, 1, 0>>
        right == VCross(forward, up)
        axis == CASE direction = "up" -> VScale(right, -1)
                  [] direction = "down" -> right
                  [] direction = "left" -> VScale(up, -1)
                  [] direction = "right" -> up
        best == CHOOSE i \in 1..Len(cardinals) :
                  /\ \A j \in 1..Len(cardinals) : VDot(axis, cardinals[j]) <= VDot(axis, cardinals[i])
                  /\ \A j \in 1..(i - 1) : VDot(axis, cardinals[j]) < VDot(axis, cardinals[i])
    IN  cardinals[best]

flipBlock(w, direction, camDir) ==
    IF Len(w.im.selectedGroup) = 0 \/ w.im.centerBlock = NoBlock THEN w
    ELSE IF \E i \in 1..Len(w.im.selectedGroup) : animating(w.block[w.im.selectedGroup[i]])
    THEN w
    ELSE rotateGroup(w, FlipAxis(direction, camDir))

----------------------------------------------------------------------------
(* InteractionManager: pointer events *)

\* Angles on the rotation plane are counted in steps of PI / HalfTurn.
HalfTurn == 8

\* dist > threshold in place of dist >= threshold (used to test C20).
DistMoreThan(p, q, threshold) ==
    (p[1] - q[1]) * (p[1] - q[1]) + (p[2] - q[2]) * (p[2] - q[2]) > threshold * threshold

\* |dx| + |dy| >= threshold in place of the Euclidean distance (used to test
\* C27).
DistManhattanAtLeast(p, q, threshold) ==
    Abs(p[1] - q[1]) + Abs(p[2] - q[2]) >= threshold

\* dist >= threshold for dist = Math.sqrt(dx * dx + dy * dy).
DistAtLeast(p, q, threshold) ==
    (p[1] - q[1]) * (p[1] - q[1]) + (p[2] - q[2]) * (p[2] - q[2]) >= threshold * threshold

\* A resetPointerState that forgets to clear the drag target (used to test
\* C26).
resetPointerStateKeepingTarget(w) ==
    [w EXCEPT !.im.pendingBlock = NoBlock,
              !.im.hasMovedPastThreshold = FALSE,
              !.im.isDragging = FALSE,
              !.im.isGroupDrag = FALSE,
              !.im.dragPlane = Null,
              !.im.groupDragStartPositions = << >>,
              !.im.dragOffset = Zero3,
              !.im.dragTargetStartPos = Zero3]

\* InteractionManager.resetPointerState
resetPointerState(w) ==
    [w EXCEPT !.im.pendingBlock = NoBlock,
              !.im.hasMovedPastThreshold = FALSE,
              !.im.isDragging = FALSE,
              !.im.isGroupDrag = FALSE,
              !.im.dragTarget = NoBlock,
              !.im.dragPlane = Null,
              !.im.groupDragStartPositions = << >>,
              !.im.dragOffset = Zero3,
              !.im.dragTargetStartPos = Zero3]

(* InteractionManager.onPointerDown.  e.button is the mouse button, e.client *)
(* the pointer's pixel, e.ring the axis of the gizmo ring the ray hits first *)
(* (Null: none), e.block the block whose cell the ray hits first (NoBlock:   *)
(* none), e.angle the angle of the ray on the ring's rotation plane.         *)
onPointerDown(w, e) ==
    IF e.button # 0 THEN w
    ELSE
      LET pressed == [w EXCEPT !.im.mouseDownPos = e.client]
      IN  IF w.im.gizmoVisible /\ w.im.centerBlock # NoBlock /\ e.ring # Null
          THEN [pressed EXCEPT !.im.isGizmoDragging = TRUE,
                               !.im.gizmoDragAxis = e.ring,
                               !.im.controlsEnabled = FALSE,
                               !.im.gizmoDragPlane = e.ring,
                               !.im.gizmoDragStartAngle = e.angle,
                               !.im.gizmoAccumulatedAngle = 0]
          ELSE IF e.block # NoBlock
          THEN [pressed EXCEPT !.im.pendingBlock = e.block,
                               !.im.hasMovedPastThreshold = FALSE,
                               !.im.controlsEnabled = FALSE]
          ELSE pressed

\* The difference of the two angles left as it is (used to test C28).
UnwrappedAngle(delta) == delta

\* delta wrapped by "while (delta > PI) delta -= 2 PI; while (delta < -PI)
\* delta += 2 PI" (the difference of two atan2 values lies in [-2 PI, 2 PI]).
WrapAngle(delta) ==
    IF delta > HalfTurn THEN delta - 2 * HalfTurn
    ELSE IF delta < -HalfTurn THEN delta + 2 * HalfTurn
    ELSE delta

\* The gizmo branch sampling the angle whether the ray meets the rotation
\* plane or not (used to test C34).
GizmoDragToAnyway(w, hit, currentAngle) ==
    LET delta == WrapAngle(currentAngle - w.im.gizmoDragStartAngle)
        accumulated == w.im.gizmoAccumulatedAngle + delta
        sampled == [w EXCEPT !.im.gizmoAccumulatedAngle = accumulated,
                             !.im.gizmoDragStartAngle = currentAngle]
    IN  IF 4 * Abs(accumulated) >= HalfTurn
        THEN LET sign == IF accumulated > 0 THEN 1 ELSE -1
                 turned == rotateGroup(sampled, VScale(w.im.gizmoDragAxis, sign))
             IN  [turned EXCEPT !.im.gizmoAccumulatedAngle = 0]
        ELSE sampled

\* The gizmo branch of onPointerMove for the angle of the ray on the rotation
\* plane (hit is FALSE when the ray misses the plane).
GizmoDragTo(w, hit, currentAngle) ==
    IF ~hit THEN w
    ELSE
      LET delta == WrapAngle(currentAngle - w.im.gizmoDragStartAngle)
          accumulated == w.im.gizmoAccumulatedAngle + delta
          sampled == [w EXCEPT !.im.gizmoAccumulatedAngle = accumulated,
                               !.im.gizmoDragStartAngle = currentAngle]
      IN  IF 4 * Abs(accumulated) >= HalfTurn
          THEN LET sign == IF accumulated > 0 THEN 1 ELSE -1
                   turned == rotateGroup(sampled, VScale(w.im.gizmoDragAxis, sign))
               IN  [turned EXCEPT !.im.gizmoAccumulatedAngle = 0]
          ELSE sampled

(* InteractionManager.onPointerMove.  e.client is the pointer's pixel,       *)
(* e.camDir the camera's view direction, e.hit whether the ray meets the     *)
(* plane of the gesture in progress, e.angle the angle of the ray on the     *)
(* gizmo's rotation plane, e.delta the pointer's displacement on the drag    *)
(* plane since the drag started.  The ray that starts a drag meets the drag  *)
(* plane at the block's centre.                                              *)
onPointerMove(w, e) ==
    IF w.im.isGizmoDragging /\ w.im.gizmoDragAxis # Null /\ w.im.gizmoDragPlane # Null
       /\ w.im.centerBlock # NoBlock
    THEN GizmoDragTo(w, e.hit, e.angle)
    ELSE
      LET crossing == /\ w.im.pendingBlock # NoBlock
                      /\ ~w.im.hasMovedPastThreshold
                      /\ ~w.im.isDragging
                      /\ DistAtLeast(e.client, w.im.mouseDownPos, mouseMoveThreshold)
          started == IF crossing
                     THEN startDrag([w EXCEPT !.im.hasMovedPastThreshold = TRUE],
                                    w.im.pendingBlock, e.camDir,
                                    getWorldCenter(w.block[w.im.pendingBlock]))
                     ELSE w
          grab == VSub(started.im.dragTargetStartPos, started.im.dragOffset)
          intersectPoint == IF crossing THEN grab
                            ELSE IF ~e.hit THEN Null
                            ELSE VAdd(grab, e.delta)
      IN  IF started.im.isDragging /\ started.im.dragTarget # NoBlock
             /\ started.im.dragPlane # Null
          THEN DragTo(started, intersectPoint)
          ELSE started

\* A click that selects the block's group again when the block is already
\* the center (used to test C19).
ClickOnSelecting(w, b) ==
    selectGroupWithCenter(w, findConnectedBlocks(w, b), b)

\* The click branch of onPointerUp: a block that is not the center is
\* selected with its connected blocks; the center is left alone.
ClickOn(w, b) ==
    IF b # w.im.centerBlock
    THEN selectGroupWithCenter(w, findConnectedBlocks(w, b), b)
    ELSE w

(* InteractionManager.onPointerUp.  e.button, e.client as for the press;     *)
(* e.ring and e.block are what the release ray hits (Null: nothing).         *)
onPointerUp(w, e) ==
    IF e.button # 0 THEN w
    ELSE IF w.im.isGizmoDragging
    THEN [w EXCEPT !.im.isGizmoDragging = FALSE,
                   !.im.gizmoDragAxis = Null,
                   !.im.gizmoDragPlane = Null,
                   !.im.gizmoDragStartAngle = 0,
                   !.im.gizmoAccumulatedAngle = 0,
                   !.im.controlsEnabled = TRUE]
    ELSE IF w.im.isDragging
    THEN
      LET snapped ==
            IF w.im.isGroupDrag
            THEN [w EXCEPT !.block = ForEachBlock(snapToGrid, w.block, w.im.selectedGroup, 1),
                           !.im.isDragging = FALSE]
            ELSE IF w.im.dragTarget # NoBlock
            THEN [w EXCEPT !.block[w.im.dragTarget] = snapToGrid(w.block[w.im.dragTarget]),
                           !.im.isDragging = FALSE]
            ELSE [w EXCEPT !.im.isDragging = FALSE]
          shown == IF w.im.centerBlock # NoBlock
                   THEN [snapped EXCEPT !.im.gizmoVisible = TRUE]
                   ELSE snapped
      IN  resetPointerState([shown EXCEPT !.im.controlsEnabled = TRUE])
    ELSE
      LET done(x) == resetPointerState([x EXCEPT !.im.controlsEnabled = TRUE])
      IN  IF w.im.pendingBlock # NoBlock /\ ~w.im.hasMovedPastThreshold
          THEN done(ClickOn(w, w.im.pendingBlock))
          ELSE IF w.im.pendingBlock = NoBlock
                  /\ ~DistAtLeast(e.client, w.im.mouseDownPos, mouseMoveThreshold)
          THEN IF w.im.gizmoVisible /\ e.ring # Null THEN done(w)
               ELSE IF e.block = NoBlock THEN done(deselectAll(w))
               ELSE done(w)
          ELSE done(w)

\* A double click that selects the block's connected component, as a click
\* does (used to test C18).
onDblClickConnected(w, e) ==
    IF e.block = NoBlock THEN w
    ELSE selectGroupWithCenter(w, findConnectedBlocks(w, e.block), e.block)

\* InteractionManager.onDblClick; e.block is the block the ray hits first.
onDblClick(w, e) ==
    IF e.block = NoBlock THEN w
    ELSE
      LET cleared == ForEachBlock(Deselected, w.block, w.im.selectedGroup, 1)
      IN  notifySelectChange(
            [w EXCEPT !.block = [cleared EXCEPT ![e.block] = setSelected(@, TRUE)],
                      !.im.selectedGroup = <<e.block>>,
                      !.im.centerBlock = e.block,
                      !.im.gizmoVisible = TRUE])

----------------------------------------------------------------------------
(* State *)

VARIABLES
    blocks,        \* InteractionManager.blocks: the block ids, in addBlock order
    block,         \* the BlockObject of each id
    im,            \* the InteractionManager's fields
    now,           \* performance.now(), ms
    sel,           \* the onSelectChange calls of the last event, in order
    col,           \* the onCollisionChange calls of the last event, in order
    threw,         \* the last event's handler raised a TypeError
    nRot,          \* rotateGroup calls accepted so far
    nDrag,         \* startDrag calls so far
    budget,        \* the rotations and drags one run may start
    hostColliding, \* the id set last delivered through onCollisionChange
    clicking,      \* a press that hit no gizmo ring is followed so far only by
                   \* pointer-moves below the threshold
    button,        \* the left mouse button, "up" or "down", in a specification
                   \* whose left presses and releases alternate ("unwatched"
                   \* in the others, where a release can be lost)
    hist           \* history kept for the rotation properties (Null when a
                   \* specification keeps none): the blocks, group, centre and
                   \* axis of the last accepted rotateGroup, the blocks before
                   \* the first of the rotations made in a row about that axis,
                   \* and their number

vars == <<blocks, block, im, now, sel, col, threw, nRot, nDrag, budget,
          hostColliding, clicking, button, hist>>

\* The world a handler starts from: the current state, no callback made yet.
World ==
    [ blocks |-> blocks, block |-> block, im |-> im, now |-> now,
      sel |-> << >>, col |-> << >>, threw |-> FALSE,
      nRot |-> nRot, nDrag |-> nDrag ]

\* The history at the start of a run that keeps one.
NoHistory ==
    [ block |-> block, group |-> << >>, center |-> NoBlock, axis |-> Null,
      start |-> block, turns |-> 0 ]

\* The history after a handler that leaves w: a rotateGroup call the handler
\* made and that was accepted is recorded with the state it started from.
Recorded(w) ==
    IF hist = Null \/ w.nRot = nRot THEN hist
    ELSE
      LET axis == w.block[im.centerBlock].animTargetQuat
          again == hist.axis = axis /\ hist.turns > 0
      IN  [ block |-> block,
            group |-> im.selectedGroup,
            center |-> im.centerBlock,
            axis |-> axis,
            start |-> IF again THEN hist.start ELSE block,
            turns |-> IF again THEN hist.turns + 1 ELSE 1 ]

\* The state a handler leaves, within the bounds of the run.
Commit(w) ==
    /\ w.nRot <= budget.rot
    /\ w.nDrag <= budget.drag
    /\ blocks' = w.blocks
    /\ block' = w.block
    /\ im' = w.im
    /\ now' = w.now
    /\ sel' = w.sel
    /\ col' = w.col
    /\ threw' = w.threw
    /\ nRot' = w.nRot
    /\ nDrag' = w.nDrag
    /\ budget' = budget
    /\ hist' = Recorded(w)
    /\ hostColliding' = IF Len(w.col) > 0 THEN w.col[Len(w.col)] ELSE hostColliding

AnyAnimating(w) == \E i \in 1..Len(w.blocks) : animating(w.block[w.blocks[i]])

----------------------------------------------------------------------------
(* Inputs *)

\* An id selectBlockById can be given that belongs to no block.
UnknownId == 99

PressPixel == <<0, 0>>
\* Pixels at distance 0, sqrt(8) and 3 of the press.
MovePixels == {<<0, 0>>, <<2, 2>>, <<3, 0>>}
\* Camera view directions: the initial camera (SceneManager, from (6, 10, 8)
\* to the origin), which looks mostly down, and one that looks mostly along x
\* (OrbitControls lets the user turn the camera).
InitialCamera == <<-6, -10, -8>>
CamDirs == {InitialCamera, <<-10, -4, -1>>}
Directions == {"up", "down", "left", "right"}
\* Pointer displacements on the drag plane since the start of the drag.
DragDeltas == {Zero3, <<-Unit, 0, 0>>, <<0, -Unit, 0>>, <<0, Unit, 0>>}
\* Clock advance between two frames, ms.
TickDeltas == {100, 200}

\* A press of the other mouse button.
OtherButtonPress ==
    [button |-> 2, client |-> PressPixel, ring |-> Null, block |-> NoBlock, angle |-> 0]
\* Left presses whose ray hits block b, or nothing (NoBlock).
BlockPresses(bs) ==
    {[button |-> 0, client |-> PressPixel, ring |-> Null, block |-> b, angle |-> 0] : b \in bs}
\* Left presses whose ray hits the gizmo ring of axis r at angle a.
RingPresses(rs, as) ==
    {[button |-> 0, client |-> PressPixel, ring |-> r, block |-> NoBlock, angle |-> a]
        : r \in rs, a \in as}

\* The moves that matter in the current state: angles during a gizmo drag,
\* otherwise a pixel, with the camera direction when the move can start a
\* drag and a displacement on the drag plane when a drag is in progress.
MoveEvents(cams, deltas, angles) ==
    IF im.isGizmoDragging
    THEN {[client |-> PressPixel, camDir |-> InitialCamera, hit |-> h, delta |-> Zero3,
           angle |-> a] : h \in BOOLEAN, a \in angles}
    ELSE IF im.isDragging /\ im.dragPlane # Null
    THEN {[client |-> p, camDir |-> InitialCamera, hit |-> h, delta |-> d, angle |-> 0]
            : p \in MovePixels, h \in BOOLEAN,
              d \in {x \in deltas : x[im.dragPlane.axis] = 0}}
    ELSE {[client |-> p, camDir |-> c, hit |-> TRUE, delta |-> Zero3, angle |-> 0]
            : p \in MovePixels, c \in cams}

\* Releases: the other button, or the left button at pixel p with the ray
\* hitting a gizmo ring or not, and a block or not.
ReleaseEvents(bs) ==
    {[button |-> 2, client |-> PressPixel, ring |-> Null, block |-> NoBlock]}
    \cup {[button |-> 0, client |-> p, ring |-> r, block |-> b]
            : p \in MovePixels, r \in {Null, <<1, 0, 0>>}, b \in bs}

----------------------------------------------------------------------------
(* Actions: one per event the host delivers *)

PointerDown(events) ==
    \E e \in events :
        /\ (e.button = 0 => button # "down")
        /\ Commit(onPointerDown(World, e))
        /\ clicking' = IF e.button # 0 THEN clicking
                       ELSE ~(im.gizmoVisible /\ im.centerBlock # NoBlock /\ e.ring # Null)
        /\ button' = IF e.button = 0 /\ button = "up" THEN "down" ELSE button

PointerMove(cams, deltas, angles) ==
    \E e \in MoveEvents(cams, deltas, angles) :
        /\ Commit(onPointerMove(World, e))
        /\ clicking' = (clicking /\ ~DistAtLeast(e.client, im.mouseDownPos, mouseMoveThreshold))
        /\ UNCHANGED button

PointerUp(bs) ==
    \E e \in ReleaseEvents(bs) :
        /\ (e.button = 0 => button # "up")
        /\ Commit(onPointerUp(World, e))
        /\ clicking' = IF e.button # 0 THEN clicking ELSE FALSE
        /\ button' = IF e.button = 0 /\ button = "down" THEN "up" ELSE button

DblClick(bs) ==
    \E b \in bs :
        /\ Commit(onDblClick(World, [block |-> b]))
        /\ UNCHANGED <<clicking, button>>

\* onKeyDown with an arrow key, or the host's flip button.
FlipBlock(dirs, cams) ==
    \E d \in dirs, c \in cams :
        /\ Commit(flipBlock(World, d, c))
        /\ UNCHANGED <<clicking, button>>

\* A rotateGroup call about one of axes: a gizmo drag past a quarter turn, or
\* a flip.
RotateGroup(axes) ==
    \E axis \in axes :
        /\ Commit(rotateGroup(World, axis))
        /\ UNCHANGED <<clicking, button>>

\* The host's thumbnail click.
SelectBlockById(ids) ==
    \E id \in ids :
        /\ Commit(selectBlockById(World, id))
        /\ UNCHANGED <<clicking, button>>

\* One frame: the clock has advanced by dt and the render callback runs.
\* When the frame leaves no animation running the clock's origin moves to now.
Tick ==
    \E dt \in TickDeltas :
        LET w == update([World EXCEPT !.now = now + dt])
        IN  /\ Commit(IF AnyAnimating(w) THEN w ELSE [w EXCEPT !.now = 0])
            /\ UNCHANGED <<clicking, button>>

----------------------------------------------------------------------------
(* Specifications *)

\* The state after GameScene.vue's onMounted for the catalog entries of scene
\* (a sequence of catalog ids), each at the grid position at[id].
MountedWith(scene, cells, at) ==
    /\ blocks = scene
    /\ block = [b \in Range(scene) |-> NewBlock(cells[b], at[b])]
    /\ im = NewInteractionManager
    /\ now = 0
    /\ sel = << >>
    /\ col = << >>
    /\ threw = FALSE
    /\ nRot = 0
    /\ nDrag = 0
    /\ hostColliding = {}
    /\ clicking = FALSE

Mounted(scene, at) == MountedWith(scene, BLOCK_DEFINITIONS, at)

\* The first two catalog entries (GameScene.vue creates all seven; the others
\* stay at their start positions, three cells apart, out of reach).
Scene == <<0, 1>>
SceneIds == Range(Scene)

(* The gesture specification: every pointer event on the two blocks of the  *)
(* scene, selection, one rotation (the flip "down" seen from the initial     *)
(* camera) and the frames.                                                   *)
Init ==
    /\ Mounted(Scene, startPositions)
    /\ budget = [rot |-> MaxFlips, drag |-> MaxDrags]
    /\ hist = Null
    /\ button = "unwatched"

\* The pointer events of the gesture specification.
Press ==
    PointerDown({OtherButtonPress} \cup BlockPresses(SceneIds \cup {NoBlock})
                  \cup RingPresses({<<0, 1, 0>>}, {0}))
Move == PointerMove(CamDirs, DragDeltas, {HalfTurn \div 4})
Release == PointerUp({NoBlock, Scene[1]})

Next ==
    \/ Press
    \/ Move
    \/ Release
    \/ DblClick({Scene[1]})
    \/ FlipBlock({"down"}, {InitialCamera})
    \/ SelectBlockById({Scene[2]})
    \/ Tick

Spec == Init /\ [][Next]_vars

(* The rotation specification: flips about all six cardinal axes, selection  *)
(* of the connected group or of one block alone, and the frames; no drag.    *)
(* Block 1 starts at a place a drag can have left it: its start position,    *)
(* one cell nearer (adjacent to block 0) or two cells nearer (overlapping    *)
(* block 0).                                                                  *)
RotStarts == {<<3, 0, 0>>, <<2, 0, 0>>, <<1, 0, 0>>}

RotScene == \E p \in RotStarts : Mounted(Scene, [startPositions EXCEPT ![Scene[2]] = p])

InitRot ==
    /\ RotScene
    /\ budget = [rot |-> MaxRotations, drag |-> 0]
    /\ hist = Null
    /\ button = "unwatched"

NextRot ==
    \/ FlipBlock(Directions, CamDirs)
    \/ SelectBlockById(SceneIds \cup {UnknownId})
    \/ DblClick(SceneIds)
    \/ Tick

SpecRot == InitRot /\ [][NextRot]_vars

(* The rotation specification with frames that keep coming.  The host's    *)
(* render loop (requestAnimationFrame) calls update again and again, and     *)
(* performance.now() is later at each call: while a block is animating, a    *)
(* step that advances the clock (a frame) eventually comes.  The condition   *)
(* follows from weak fairness of Tick, which is enabled and advances the     *)
(* clock whenever a block is animating.                                      *)
ClockAdvances ==
    /\ \E b \in DOMAIN block : animating(block[b])
    /\ now' \in {now + dt : dt \in TickDeltas}

SpecRotFair == SpecRot /\ WF_now(ClockAdvances)

(* The group-rotation specification: the rotation specification with the    *)
(* history of the last accepted rotateGroup kept.                            *)
InitRigid ==
    /\ RotScene
    /\ budget = [rot |-> MaxRotations, drag |-> 0]
    /\ hist = NoHistory
    /\ button = "unwatched"

NextRigid ==
    \/ FlipBlock(Directions, CamDirs)
    \/ SelectBlockById(SceneIds)
    \/ DblClick(SceneIds)
    \/ Tick

SpecRigid == InitRigid /\ [][NextRigid]_vars

(* The scene specification: three blocks at rest anywhere in a small box     *)
(* (places drags can have left them: apart, adjacent, stacked, overlapping), *)
(* with selection by id, clicks, double clicks and the frames; no rotation   *)
(* and no drag.                                                              *)
Scene3 == <<0, 1, 2>>
Scene3Ids == Range(Scene3)

\* The grid positions of the box.
Box == {<<x, y, z>> : x \in (-MaxCoord)..MaxCoord, y \in 0..1, z \in 0..1}

InitScene ==
    /\ \E p1 \in {p \in Box : p[3] = 0}, p2 \in Box :
          Mounted(Scene3, [startPositions EXCEPT ![Scene3[1]] = <<0, 0, 0>>,
                                                 ![Scene3[2]] = p1,
                                                 ![Scene3[3]] = p2])
    /\ budget = [rot |-> 0, drag |-> 0]
    /\ hist = Null
    /\ button = "unwatched"

ScenePress == PointerDown(BlockPresses(Scene3Ids \cup {NoBlock}))
SceneMove == PointerMove({InitialCamera}, {Zero3}, {0})
SceneRelease == PointerUp({NoBlock})

NextScene ==
    \/ ScenePress
    \/ SceneMove
    \/ SceneRelease
    \/ DblClick({Scene3[1]})
    \/ SelectBlockById(Scene3Ids \cup {UnknownId})
    \/ Tick

SpecScene == InitScene /\ [][NextScene]_vars

(* The drag specification: the pointer gestures and the frames on the two    *)
(* blocks, one drag, no rotation.  Block 1 starts at its start position or,  *)
(* where a drag can have left it, on top of block 0.                         *)
DragStarts == {<<3, 0, 0>>, <<0, 1, 0>>}

InitDrag ==
    /\ \E p \in DragStarts : Mounted(Scene, [startPositions EXCEPT ![Scene[2]] = p])
    /\ budget = [rot |-> 0, drag |-> MaxDrags]
    /\ hist = Null
    /\ button = "unwatched"

NextDrag ==
    \/ PointerDown(BlockPresses(SceneIds \cup {NoBlock}))
    \/ Move
    \/ PointerUp({NoBlock})
    \/ Tick

SpecDrag == InitDrag /\ [][NextDrag]_vars

(* The mixed specification: the two blocks side by side (block 1 where a    *)
(* drag can have left it, adjacent to block 0), with the gestures on block 1, *)
(* one flip about the vertical axis, one drag and the frames.                *)
InitMix ==
    /\ Mounted(Scene, [startPositions EXCEPT ![Scene[2]] = <<2, 0, 0>>])
    /\ budget = [rot |-> MaxFlips, drag |-> MaxDrags]
    /\ hist = Null
    /\ button = "unwatched"

NextMix ==
    \/ PointerDown(BlockPresses({Scene[2]}))
    \/ PointerMove({InitialCamera}, {Zero3, <<-Unit, 0, 0>>}, {0})
    \/ PointerUp({Scene[2]})
    \/ DblClick({Scene[2]})
    \/ FlipBlock({"right"}, {InitialCamera})
    \/ Tick

SpecMix == InitMix /\ [][NextMix]_vars

(* The turn specification: one block of any shape of a bounded set, alone in *)
(* the scene, selected and then turned again and again about one cardinal    *)
(* axis, with the frames.                                                    *)

\* The shapes: the catalog's, and every pair of cells made of the origin and
\* a cell of the cube of half-side MaxCell.
Shapes ==
    { BLOCK_DEFINITIONS[id] : id \in DOMAIN BLOCK_DEFINITIONS }
    \cup { <<Zero3, <<x, y, z>> >> : x \in (-MaxCell)..MaxCell, y \in (-MaxCell)..MaxCell,
                                      z \in (-MaxCell)..MaxCell }

InitTurn ==
    /\ \E shape \in Shapes :
          MountedWith(<<Scene[1]>>, [b \in {Scene[1]} |-> shape],
                      [b \in {Scene[1]} |-> Zero3])
    /\ budget = [rot |-> MaxTurns, drag |-> 0]
    /\ hist = NoHistory
    /\ button = "unwatched"

\* A turn about the axis of the turns made so far (any axis for the first).
TurnAgain ==
    \E i \in 1..Len(cardinals) :
        /\ hist.axis \in {Null, cardinals[i]}
        /\ RotateGroup({cardinals[i]})

NextTurn ==
    \/ SelectBlockById({Scene[1]})
    \/ TurnAgain
    \/ Tick

SpecTurn == InitTurn /\ [][NextTurn]_vars

(* The gizmo specification: the two blocks side by side, selected as one    *)
(* group, with drags of the gizmo's rings about two axes, a flip and the     *)
(* frames; two rotations, no block drag.  Left presses and releases         *)
(* alternate.                                                                *)

\* Angles of the pointer on the rotation plane, in units of PI / HalfTurn
\* (22.5 degrees): either side of 0 and either side of the cut of atan2.
GizmoAngles == {0, 1, 2, -1, HalfTurn - 1, 1 - HalfTurn}
GizmoRings == {<<0, 1, 0>>, <<1, 0, 0>>}

InitGizmo ==
    /\ Mounted(Scene, [startPositions EXCEPT ![Scene[2]] = <<2, 0, 0>>])
    /\ budget = [rot |-> MaxRotations, drag |-> 0]
    /\ hist = NoHistory
    /\ button = "up"

GizmoPress == PointerDown(RingPresses(GizmoRings, {0, HalfTurn - 1}))
GizmoMove == PointerMove({InitialCamera}, {Zero3}, GizmoAngles)
GizmoRelease == PointerUp({NoBlock})

NextGizmo ==
    \/ SelectBlockById({Scene[2]})
    \/ GizmoPress
    \/ GizmoMove
    \/ GizmoRelease
    \/ FlipBlock({"right"}, {InitialCamera})
    \/ Tick

SpecGizmo == InitGizmo /\ [][NextGizmo]_vars

(* The alternating specification: the gesture specification with the left   *)
(* button watched, so that a left press comes only when the button is up    *)
(* and a left release only when it is down (no release is lost outside the  *)
(* canvas).                                                                  *)
InitAlt ==
    /\ Mounted(Scene, startPositions)
    /\ budget = [rot |-> MaxFlips, drag |-> MaxDrags]
    /\ hist = Null
    /\ button = "up"

SpecAlt == InitAlt /\ [][Next]_vars

(* The at-rest drag specification: the gesture specification in which the    *)
(* pointer-move that can start a drag (a candidate block is recorded, the    *)
(* threshold has not been passed, no drag is active) comes only while no     *)
(* block is animating; rotations and frames during a drag stay possible.     *)
PlaneMove ==
    /\ (im.pendingBlock # NoBlock /\ ~im.hasMovedPastThreshold /\ ~im.isDragging
          /\ ~im.isGizmoDragging)
         => ~\E b \in DOMAIN block : animating(block[b])
    /\ Move

NextPlane ==
    \/ Press
    \/ PlaneMove
    \/ Release
    \/ DblClick({Scene[1]})
    \/ FlipBlock({"down"}, {InitialCamera})
    \/ SelectBlockById({Scene[2]})
    \/ Tick

SpecPlane == Init /\ [][NextPlane]_vars

----------------------------------------------------------------------------
(* Observations shared by the properties *)

\* position.y + cell.y >= 0 for every cell offset of block object o.
OnFloor(o) == \A j \in 1..Len(o.cells) : o.position[2] + o.cells[j][2] * Unit >= 0

\* This step is the release that ends a block drag: only the drag-end branch
\* of onPointerUp clears isDragging.
DragEnds == im.isDragging /\ ~im'.isDragging

\* The blocks the drag in progress moves.
DraggedBlocks ==
    IF im.isGroupDrag THEN Range(im.selectedGroup)
    ELSE IF im.dragTarget # NoBlock THEN {im.dragTarget} ELSE {}

----------------------------------------------------------------------------
(* C1: drag floor *)

\* The position the drag in progress picked block b up at (startDrag).
DragStartPosition(b) ==
    IF ~im.isGroupDrag THEN im.dragTargetStartPos
    ELSE IF b \in DOMAIN im.groupDragStartPositions THEN im.groupDragStartPositions[b]
    ELSE block[b].position

\* Block b stood on or above the floor, in the shape it has now, where the
\* drag picked it up, and it is not animating: nothing but the drag has
\* acted on it since.
PickedUpOnFloor(b) ==
    /\ ~animating(block[b])
    /\ \A j \in 1..Len(block[b].cells) :
          DragStartPosition(b)[2] + block[b].cells[j][2] * Unit >= 0

\* C1: after the release that ends a block drag, single or group, every cell
\* of every block the drag moved has position.y + cell.y >= 0.  Stated for the
\* drags that picked their blocks up at rest on or above the floor, which
\* are among the drags the claim speaks of.
C1_DragFloor ==
    [][(DragEnds /\ \A b \in DraggedBlocks : PickedUpOnFloor(b))
          => \A b \in DraggedBlocks : OnFloor(block'[b])]_vars

----------------------------------------------------------------------------
(* C3: click purity *)

\* Every block's position and every block's cell-offset list.
Placement == [b \in DOMAIN block |-> <<block[b].position, block[b].cells>>]

\* C3: while a left press that hit a block or empty space (no gizmo ring) has
\* been followed only by pointer-moves less than 3 px from the press, the
\* press, those moves and the release change no block's position and no
\* block's cell-offset list.
C3_ClickPurity ==
    [][((Press /\ clicking') \/ (clicking /\ Move /\ clicking') \/ (clicking /\ Release))
          => Placement' = Placement]_vars

----------------------------------------------------------------------------
(* C4: presses, moves and drag-ending releases leave the selection alone *)

\* C4: no pointer-press, no pointer-move and no release that ends a block
\* drag changes the selection group or the center block or calls
\* onSelectChange.
C4_DragKeepsSelection ==
    [][(Press \/ Move \/ (Release /\ DragEnds))
          => /\ im'.selectedGroup = im.selectedGroup
             /\ im'.centerBlock = im.centerBlock
             /\ sel' = << >>]_vars

\* A completed drag has moved block 1 away from its start position (no
\* rotation was made) and nothing is selected: the press, the moves and the
\* release acted on a block that was not selected.
C4_Witness ==
    /\ nDrag = 1
    /\ nRot = 0
    /\ ~im.isDragging
    /\ block[1].position # ToReal(startPositions[1])
    /\ im.selectedGroup = << >>
    /\ im.centerBlock = NoBlock

----------------------------------------------------------------------------
(* C2: rotation floor *)

\* C2: when the animations of a rotated block finish (no drag has moved it:
\* the rotation specification has none), every one of its cells has
\* position.y + cell.y >= 0.
C2_RotationFloor ==
    [][\A b \in DOMAIN block :
          (animating(block[b]) /\ ~animating(block'[b])) => OnFloor(block'[b])]_vars

\* Both blocks were rotated as one group, both rotations are complete, and
\* the group stands higher than the floor: the floor offset has lifted it.
C2_Witness ==
    /\ nRot >= 1
    /\ \A b \in DOMAIN block :
          /\ ~animating(block[b])
          /\ block[b].cells # BLOCK_DEFINITIONS[b]
          /\ block[b].position[2] > 0
          /\ \E j \in 1..Len(block[b].cells) : block[b].cells[j][2] < 0

----------------------------------------------------------------------------
(* C6: no collision check while a block animates *)

\* Some block is animating its orientation or its position.
AnimatingNow == \E b \in DOMAIN block : animating(block[b])

\* C6: a frame after whose animation update some block is still animating
\* leaves the recorded collision set alone and does not call
\* onCollisionChange.
C6_NoCheckWhileAnimating ==
    [][(Tick /\ AnimatingNow')
          => /\ col' = << >>
             /\ im'.lastCollidingIdsStr = im.lastCollidingIdsStr]_vars

\* A frame has run during an animation (the clock has advanced past the
\* animation's start) while the blocks' cells overlap and the overlap was never
\* reported: the frame did not check.
C6_Witness ==
    /\ AnimatingNow
    /\ now > 0
    /\ detectCollisions(World) # {}
    /\ im.lastCollidingIdsStr = << >>
    /\ hostColliding = {}

----------------------------------------------------------------------------
(* C7: onCollisionChange is deduplicated *)

\* C7: an event calls onCollisionChange at most once, and with a set of ids
\* other than the set of the previous call (the empty set before any call).
C7_Deduplicated ==
    [][Len(col') > 0 => (Len(col') = 1 /\ col'[1] # hostColliding)]_vars

\* The empty set is delivered after a non-empty one: the second emission of
\* a run that began with an overlap and rotated it away.
C7_Witness ==
    /\ col = << {} >>
    /\ hostColliding = {}
    /\ nRot >= 1

----------------------------------------------------------------------------
(* Cells, collisions and connectivity, stated from their definitions *)

\* The integer nearest to m / Unit, the upper one of two equally near
\* (Math.round).
NearestInteger(m) ==
    CHOOSE n \in (m \div Unit - 1)..(m \div Unit + 1) :
        2 * n * Unit - Unit <= 2 * m /\ 2 * m < 2 * n * Unit + Unit

\* The rounded world cells of block b: position + cell offset.
CellsOf(b) ==
    { << NearestInteger(block[b].position[1] + c[1] * Unit),
         NearestInteger(block[b].position[2] + c[2] * Unit),
         NearestInteger(block[b].position[3] + c[3] * Unit) >> : c \in Range(block[b].cells) }

\* The blocks that share a cell with another block.
CollidingBlocks ==
    { b \in Range(blocks) : \E c \in Range(blocks) \ {b} : CellsOf(b) \cap CellsOf(c) # {} }

Manhattan(p, q) == Abs(p[1] - q[1]) + Abs(p[2] - q[2]) + Abs(p[3] - q[3])

\* Some cell of a and some cell of b are at Manhattan distance exactly 1.
Adjacent(a, b) == \E p \in CellsOf(a), q \in CellsOf(b) : Manhattan(p, q) = 1

\* S and every block adjacent to a block of S, until nothing is added.
RECURSIVE Closure(_)
Closure(S) ==
    LET T == S \cup { b \in Range(blocks) : \E a \in S : Adjacent(a, b) }
    IN  IF T = S THEN S ELSE Closure(T)

\* The connected component of seed.
ConnectedComponent(seed) == Closure({seed})

----------------------------------------------------------------------------
(* C5: detectCollisions *)

\* Two blocks of the cells of catalog entry 0, ids 0 and 1, at (0,0,0) and
\* (1,0,0).
C5_Instance ==
    [World EXCEPT !.blocks = <<0, 1>>,
                  !.block = (0 :> NewBlock(BLOCK_DEFINITIONS[0], <<0, 0, 0>>))
                            @@ (1 :> NewBlock(BLOCK_DEFINITIONS[0], <<1, 0, 0>>))]

\* C5: detectCollisions returns exactly the ids of the blocks that have a
\* rounded world cell in common with a different block; for the instance of
\* the claim it returns {0, 1}.
C5_DetectCollisions ==
    /\ detectCollisions(World) = CollidingBlocks
    /\ detectCollisions(C5_Instance) = {0, 1}

\* Blocks 0 and 1 share a cell, block 2 shares none, and a frame has reported
\* exactly blocks 0 and 1.
C5_Witness ==
    /\ CellsOf(0) \cap CellsOf(1) # {}
    /\ CellsOf(2) \cap (CellsOf(0) \cup CellsOf(1)) = {}
    /\ hostColliding = {0, 1}
    /\ col = << {0, 1} >>

----------------------------------------------------------------------------
(* C8: findConnectedBlocks is the connected component *)

\* C8: for every block, findConnectedBlocks returns the blocks of its
\* connected component, each once.
C8_ConnectedComponent ==
    \A b \in Range(blocks) :
        LET found == findConnectedBlocks(World, b)
        IN  /\ Range(found) = ConnectedComponent(b)
            /\ Len(found) = Cardinality(Range(found))

\* Block 0 is adjacent to block 1 and block 1 to block 2, block 0 is not
\* adjacent to block 2, and the selection made from block 0 holds all three.
C8_Witness ==
    /\ Adjacent(0, 1) /\ Adjacent(1, 2) /\ ~Adjacent(0, 2)
    /\ im.centerBlock = 0
    /\ Range(im.selectedGroup) = {0, 1, 2}

----------------------------------------------------------------------------
(* C9: connectivity is symmetric and transitive *)

\* C9: a block found from A finds the same set as A; adjacent blocks find the
\* same set; and a block adjacent to a block adjacent to A is found from A.
C9_SymmetricTransitive ==
    \A FoundFrom \in {[a \in Range(blocks) |-> Range(findConnectedBlocks(World, a))]} :
    \A adjacent \in {[a \in Range(blocks) |-> {b \in Range(blocks) : Adjacent(a, b)}]} :
    \A a \in Range(blocks), b \in Range(blocks) :
        /\ b \in FoundFrom[a] => FoundFrom[a] = FoundFrom[b]
        /\ b \in adjacent[a] => FoundFrom[a] = FoundFrom[b]
        /\ \A c \in Range(blocks) :
              (b \in adjacent[a] /\ c \in adjacent[b]) => c \in FoundFrom[a]

\* Block 2 is adjacent to block 1 only, block 1 to block 0, and the
\* selection made from block 2 holds block 0.
C9_Witness ==
    /\ Adjacent(2, 1) /\ Adjacent(1, 0) /\ ~Adjacent(2, 0)
    /\ im.centerBlock = 2
    /\ 0 \in Range(im.selectedGroup)

----------------------------------------------------------------------------
(* C10: the selection a click or selectBlockById creates *)

\* This step is the left release of a click on block b, which is not the
\* center: b was pressed, no move passed the threshold, no drag of a block or
\* of a gizmo ring is in progress, and the release clears the pending block.
ClickReleaseOn(b) ==
    /\ im.pendingBlock = b
    /\ ~im.hasMovedPastThreshold
    /\ ~im.isDragging
    /\ ~im.isGizmoDragging
    /\ im.centerBlock # b
    /\ im'.pendingBlock = NoBlock

\* After the step the selection is the connected component of b as the
\* blocks stand before it, each member once, b is the center, and
\* onSelectChange was called once, with the members' ids and b.
SelectionCreated(b) ==
    /\ im'.centerBlock = b
    /\ sel' = << [ids |-> im'.selectedGroup, centerId |-> b] >>
    /\ \A component \in {ConnectedComponent(b)} :
          /\ Range(im'.selectedGroup) = component
          /\ Len(im'.selectedGroup) = Cardinality(component)
          /\ \A c \in Range(blocks) : block'[c].selected <=> c \in component

\* C10: selectBlockById with a known id, and the release of a click on a block
\* that is not the center, create the selection of that block's connected
\* component with that block as center and report it once.
C10_SelectionCreated ==
    [][vars' # vars =>
          \A b \in Range(blocks) :
              (SelectBlockById({b}) \/ ClickReleaseOn(b)) => SelectionCreated(b)]_vars

\* The last event selected the group of blocks 1 and 0 with block 1 as
\* center, while block 2 stands apart from both.
C10_Witness ==
    /\ Len(sel) = 1
    /\ sel[1].centerId = 1
    /\ Range(sel[1].ids) = {0, 1}
    /\ ConnectedComponent(2) = {2}

----------------------------------------------------------------------------
(* C11: rotation periodicity *)

\* C11: when four rotations in a row about the same cardinal axis have been
\* started on a block and the last of them is complete, the block's cell
\* offsets are again the list it had before the first, element by element.
C11_FourTurnsIdentity ==
    hist # Null =>
      \A b \in Range(hist.group) :
          (hist.turns = 4 /\ ~animating(block[b]))
            => block[b].cells = hist.start[b].cells

\* The fourth turn of a block is complete and brought back the shape that the
\* first three had changed.
C11_Witness ==
    /\ hist # Null
    /\ hist.turns = 4
    /\ \E b \in Range(hist.group) :
          /\ ~animating(block[b])
          /\ block[b].cells = hist.start[b].cells
          /\ hist.block[b].cells # hist.start[b].cells
          /\ Len(block[b].cells) = 4

----------------------------------------------------------------------------
(* C12: group rotation is rigid *)

\* The quarter turn about a cardinal axis on integer vectors:
\* (a . v) a + a x v.
QuarterTurn(v, axis) == VAdd(VScale(axis, VDot(axis, v)), VCross(axis, v))

\* The last accepted rotateGroup is complete: no member of its group is
\* animating.
RotationComplete ==
    /\ hist # Null
    /\ hist.group # << >>
    /\ \A m \in Range(hist.group) : ~animating(block[m])

\* The whole number of cells the centre of the last rotation went up.
Lift == (block[hist.center].position[2] - hist.block[hist.center].position[2]) \div Unit

\* C12: once a rotateGroup about a cardinal axis is complete, there is one
\* integer k >= 0 such that every member is at p + R(before - p) + (0, k, 0),
\* p being the centre's position at the call and R the quarter turn, the
\* centre at p + (0, k, 0), and every member's cells are R of its cells before.
C12_RigidGroupRotation ==
    RotationComplete =>
      LET p == hist.block[hist.center].position
          k == Lift
      IN  /\ k >= 0
          /\ block[hist.center].position = VAdd(p, <<0, k * Unit, 0>>)
          /\ \A m \in Range(hist.group) :
                /\ block[m].position =
                     VAdd(VAdd(p, QuarterTurn(VSub(hist.block[m].position, p), hist.axis)),
                          <<0, k * Unit, 0>>)
                /\ block[m].cells =
                     [i \in 1..Len(hist.block[m].cells) |->
                        QuarterTurn(hist.block[m].cells[i], hist.axis)]

\* A rotation of a group of two is complete; the member that is not the
\* centre went round the pivot and the whole group was lifted.
C12_Witness ==
    /\ RotationComplete
    /\ Len(hist.group) = 2
    /\ Lift > 0
    /\ \E m \in Range(hist.group) :
          /\ m # hist.center
          /\ block[m].position[1] # hist.block[m].position[1]

----------------------------------------------------------------------------
(* C13: a group drag preserves the group's relative geometry *)

\* A group drag is in progress and the selection group is the one whose
\* start positions startDrag recorded.
GroupDragInProgress ==
    /\ im.isDragging
    /\ im.isGroupDrag
    /\ Range(im.selectedGroup) = DOMAIN im.groupDragStartPositions

\* C13: in every step of a group drag (its pointer-moves and its release),
\* for any two members a and b of the selection group, position(a) -
\* position(b) is after the step what it was at the start of the drag.
C13_GroupDragRigid ==
    [][ (GroupDragInProgress /\ im'.selectedGroup = im.selectedGroup)
          => \A a, b \in Range(im.selectedGroup) :
                VSub(block'[a].position, block'[b].position)
                  = VSub(im.groupDragStartPositions[a], im.groupDragStartPositions[b]) ]_vars

----------------------------------------------------------------------------
(* C14: blocks at rest are on the grid *)

\* A fixed-point position with integer coordinates and y >= 0.
OnGrid(pos) ==
    /\ \A i \in 1..3 : pos[i] % Unit = 0
    /\ pos[2] >= 0

\* The blocks a drag in progress moves or has picked up.
HeldByDrag ==
    IF im.isDragging THEN DraggedBlocks \cup DOMAIN im.groupDragStartPositions ELSE {}

\* C14: every block that is neither animating nor being moved by a drag in
\* progress has integer coordinates and y >= 0.
C14_RestOnGrid ==
    \A b \in Range(blocks) :
        (~animating(block[b]) /\ b \notin HeldByDrag) => OnGrid(block[b].position)

----------------------------------------------------------------------------
(* C15: no drag starts on an animating block *)

\* The candidate block of the press is animating or, when it belongs to the
\* selection group, some member of the group is.
CandidateAnimating ==
    /\ im.pendingBlock # NoBlock
    /\ \/ animating(block[im.pendingBlock])
       \/ /\ im.pendingBlock \in Range(im.selectedGroup)
          /\ \E m \in Range(im.selectedGroup) : animating(block[m])

\* C15: while the candidate block of a press is animating (or, for a block
\* of the selection group, any member of the group is), no step takes the
\* router into Dragging and no pointer-move changes a position.
C15_NoDragWhileAnimating ==
    [][ (CandidateAnimating /\ ~im.isDragging)
          => /\ ~im'.isDragging
             /\ Move => \A b \in Range(blocks) : block'[b].position = block[b].position ]_vars

----------------------------------------------------------------------------
(* C16: a drag in progress is not preempted by a rotation *)

\* C16: while a drag of the selection group is in progress (the group being
\* the one the drag picked up), no step (a flip least of all) starts a
\* rotation of the group, and no position animation begins to write the
\* position of a block the drag is writing.
C16_NoRotationDuringDrag ==
    [][ GroupDragInProgress
          => /\ nRot' = nRot
             /\ \A b \in DraggedBlocks :
                   block'[b].posAnimating => block[b].posAnimating ]_vars

----------------------------------------------------------------------------
(* C17: gizmo visibility *)

\* C17 as stated: in every reachable state, a block drag in progress or not,
\* the gizmo is visible if and only if a center block is selected.
C17_GizmoIffCenter == im.gizmoVisible <=> im.centerBlock # NoBlock

\* C17 as amended: the gizmo is visible only if a center block is selected,
\* and whenever no block drag is in progress it is visible if one is.
C17_GizmoIffCenterUnlessDragging ==
    /\ im.gizmoVisible => im.centerBlock # NoBlock
    /\ (~im.isDragging /\ im.centerBlock # NoBlock) => im.gizmoVisible

\* A drag has ended with a center block selected, and the gizmo is back.
C17_Witness ==
    /\ nDrag > 0
    /\ ~im.isDragging
    /\ im.centerBlock # NoBlock
    /\ im.gizmoVisible

----------------------------------------------------------------------------
(* C18: double click isolates *)

\* C18: a double click whose ray hits block b leaves the selection group
\* exactly <<b>> with center b, b and no other block highlighted, and makes
\* the one callback onSelectionChanged([b], b).
C18_DoubleClickIsolates ==
    [][ \A b \in Range(blocks) :
          DblClick({b})
            => /\ im'.selectedGroup = <<b>>
               /\ im'.centerBlock = b
               /\ \A x \in Range(blocks) : block'[x].selected <=> x = b
               /\ sel' = << [ids |-> <<b>>, centerId |-> b] >> ]_vars

\* A double click has just isolated a block that has a neighbour.
C18_Witness ==
    /\ sel = << [ids |-> <<Scene3[1]>>, centerId |-> Scene3[1]] >>
    /\ im.selectedGroup = <<Scene3[1]>>
    /\ ConnectedComponent(Scene3[1]) # {Scene3[1]}

----------------------------------------------------------------------------
(* C19: a click on the center *)

\* This step is the left press that makes the center the candidate block.
ClickPressOnCenter ==
    /\ im.pendingBlock = NoBlock
    /\ im'.pendingBlock # NoBlock
    /\ im'.pendingBlock = im.centerBlock

\* This step is the left release of a click on the center: the center was
\* pressed, no move passed the threshold, no drag is in progress, and the
\* release clears the pending block.
ClickReleaseOnCenter ==
    /\ im.pendingBlock # NoBlock
    /\ im.pendingBlock = im.centerBlock
    /\ ~im.hasMovedPastThreshold
    /\ ~im.isDragging
    /\ ~im.isGizmoDragging
    /\ im'.pendingBlock = NoBlock

\* C19: the press and the release of a click on the block that is already
\* the center leave the selection group, the center and the highlights as
\* they are and make no onSelectionChanged call.
C19_ClickOnCenterNoOp ==
    [][ (ClickPressOnCenter \/ ClickReleaseOnCenter)
          => /\ im'.selectedGroup = im.selectedGroup
             /\ im'.centerBlock = im.centerBlock
             /\ \A b \in Range(blocks) : block'[b].selected = block[b].selected
             /\ sel' = << >> ]_vars

\* The center has been pressed, no move has passed the threshold, and the
\* connected component of the center is no longer the selection group: a
\* drag has brought another block next to it.
C19_Witness ==
    /\ im.pendingBlock # NoBlock
    /\ im.pendingBlock = im.centerBlock
    /\ ~im.hasMovedPastThreshold
    /\ ~im.isDragging
    /\ nDrag > 0
    /\ ConnectedComponent(im.centerBlock) # Range(im.selectedGroup)

----------------------------------------------------------------------------
(* C20: the empty-space click *)

\* This step is the handling of the left release e.
LeftRelease(e) ==
    /\ e.button = 0
    /\ Commit(onPointerUp(World, e))
    /\ clicking' = FALSE

\* The release e is less than 3 px from the recorded press position and its
\* ray hits no gizmo ring while the gizmo is visible, and no block cell.
EmptySpaceClick(e) ==
    /\ (e.client[1] - im.mouseDownPos[1]) * (e.client[1] - im.mouseDownPos[1])
         + (e.client[2] - im.mouseDownPos[2]) * (e.client[2] - im.mouseDownPos[2]) < 3 * 3
    /\ ~(im.gizmoVisible /\ e.ring # Null)
    /\ e.block = NoBlock

\* The step clears the selection and reports it once.
SelectionCleared ==
    /\ im'.selectedGroup = << >>
    /\ im'.centerBlock = NoBlock
    /\ ~im'.gizmoVisible
    /\ \A b \in Range(blocks) : ~block'[b].selected
    /\ sel' = << [ids |-> << >>, centerId |-> NoBlock] >>

\* The step leaves the selection alone and reports nothing.
SelectionUntouched ==
    /\ im'.selectedGroup = im.selectedGroup
    /\ im'.centerBlock = im.centerBlock
    /\ im'.gizmoVisible = im.gizmoVisible
    /\ \A b \in Range(blocks) : block'[b].selected = block[b].selected
    /\ sel' = << >>

----------------------------------------------------------------------------
(* C21: the selection group is a snapshot *)

\* The blocks whose orientation animation starts in this step.
StartTurning == { b \in Range(blocks) : block'[b].isAnimating /\ ~block[b].isAnimating }

\* C21: a step that changes the selection group or the center is no
\* pointer-move, no flip, no frame and no release that ends a drag; and an
\* accepted rotateGroup turns exactly the blocks of the selection group,
\* whatever is adjacent to them now.
C21_SelectionSnapshot ==
    [][ /\ (im'.selectedGroup # im.selectedGroup \/ im'.centerBlock # im.centerBlock)
            => ~(Move \/ Tick \/ DragEnds \/ FlipBlock(Directions, CamDirs))
        /\ nRot' > nRot => StartTurning = Range(im.selectedGroup) ]_vars

\* Block 0 was selected alone, block 1 was then dragged next to it, and the
\* rotation that followed turns block 0 and not block 1.
C21_Witness ==
    /\ im.selectedGroup = <<Scene[1]>>
    /\ nDrag > 0
    /\ nRot > 0
    /\ block[Scene[1]].isAnimating
    /\ ~animating(block[Scene[2]])
    /\ block[Scene[2]].position # ToReal(startPositions[Scene[2]])
    /\ ConnectedComponent(Scene[1]) = SceneIds

----------------------------------------------------------------------------
(* C22: a block alone turned about the vertical axis *)

\* The last accepted rotateGroup turned block b alone about +Y or -Y, and
\* every cell of b was on or above the floor when it was called.
TurnedAloneAboutY(b) ==
    /\ hist # Null
    /\ hist.group = <<b>>
    /\ hist.axis \in {<<0, 1, 0>>, <<0, -1, 0>>}
    /\ OnFloor(hist.block[b])

\* The cell list of b before the last rotateGroup, turned a quarter about
\* its axis.
TurnedCells(b) ==
    [i \in 1..Len(hist.block[b].cells) |-> QuarterTurn(hist.block[b].cells[i], hist.axis)]

\* C22: after rotateGroup about +Y or -Y on a group of one block at rest
\* with all cells at world y >= 0, the block's position is what it was, no
\* position animation runs, the orientation animation runs with the turned
\* cells pending, and once it is complete the cell list is the turned list.
C22_AloneAboutY ==
    \A b \in Range(blocks) :
        TurnedAloneAboutY(b)
          => /\ block[b].position = hist.block[b].position
             /\ ~block[b].posAnimating
             /\ IF block[b].isAnimating
                THEN /\ block[b].cells = hist.block[b].cells
                     /\ block[b].pendingCells = TurnedCells(b)
                ELSE block[b].cells = TurnedCells(b)

\* Such a rotation is complete and has changed the cell list.
C22_Witness ==
    \E b \in Range(blocks) :
        /\ TurnedAloneAboutY(b)
        /\ ~animating(block[b])
        /\ block[b].cells = TurnedCells(b)
        /\ block[b].cells # hist.block[b].cells
        /\ ConnectedComponent(b) = {b}

----------------------------------------------------------------------------
(* C23: selectBlockById with an unknown id *)

\* C23: a selectBlockById call with an id that belongs to no block leaves
\* the selection group, the center, the gizmo visibility and every block's
\* highlight as they are, makes no onSelectionChanged call and raises no
\* error.
C23_UnknownIdNoOp ==
    [][ SelectBlockById({UnknownId})
          => /\ im'.selectedGroup = im.selectedGroup
             /\ im'.centerBlock = im.centerBlock
             /\ im'.gizmoVisible = im.gizmoVisible
             /\ \A b \in Range(blocks) : block'[b].selected = block[b].selected
             /\ sel' = << >>
             /\ ~threw' ]_vars

\* A group of two is selected with its gizmo shown, and the last event made
\* no onSelectionChanged call.
C23_Witness ==
    /\ UnknownId \notin Range(blocks)
    /\ Len(im.selectedGroup) = 2
    /\ im.gizmoVisible
    /\ sel = << >>
    /\ im.pendingBlock = NoBlock

----------------------------------------------------------------------------
(* C24: the center and the selection group *)

\* ids and centerId are either empty and null, or centerId is one of ids.
WellFormedSelection(ids, centerId) ==
    IF ids = << >> THEN centerId = NoBlock
    ELSE /\ centerId # NoBlock
         /\ \E i \in 1..Len(ids) : ids[i] = centerId

\* C24: the center is null exactly when the selection group is empty;
\* otherwise it is a member of the group and no block is in the group twice;
\* and every onSelectionChanged(memberIds, centerId) call of the last event
\* has memberIds empty and centerId null, or centerId among memberIds.
C24_CenterInGroup ==
    /\ WellFormedSelection(im.selectedGroup, im.centerBlock)
    /\ \A i, j \in 1..Len(im.selectedGroup) :
          im.selectedGroup[i] = im.selectedGroup[j] => i = j
    /\ \A k \in 1..Len(sel) : WellFormedSelection(sel[k].ids, sel[k].centerId)

\* The three blocks are selected as one group whose center is not block 0,
\* and the last event reported it.
C24_Witness ==
    /\ Len(im.selectedGroup) = 3
    /\ im.centerBlock = Scene3[3]
    /\ sel = << [ids |-> im.selectedGroup, centerId |-> im.centerBlock] >>

----------------------------------------------------------------------------
(* C25: no rotation while a member is animating *)

\* Some member of the selection group is orientation- or position-animating.
MemberAnimating == \E m \in Range(im.selectedGroup) : animating(block[m])

\* C25: while a member of the selection group is animating, a flip and a
\* pointer-move of a gizmo drag (the two callers of rotateGroup) change no
\* block: pending cells, animation flags and targets, positions and cells
\* stay as they are, and no rotation is accepted.
C25_NoRotationWhileAnimating ==
    [][ (MemberAnimating /\ (FlipBlock(Directions, CamDirs) \/ (im.isGizmoDragging /\ GizmoMove)))
          => /\ block' = block
             /\ nRot' = nRot ]_vars

\* A gizmo drag is in progress on a group that a rotation has set in motion,
\* part of the way through its animation.
C25_Witness ==
    /\ MemberAnimating
    /\ im.isGizmoDragging
    /\ nRot > 0
    /\ now > 0

----------------------------------------------------------------------------
(* C26: the pointer router returns to Idle *)

\* The router's Idle state: no candidate block, no drag of a block or of the
\* gizmo, no drag target and no drag plane.
Idle ==
    /\ im.pendingBlock = NoBlock
    /\ ~im.isDragging
    /\ ~im.isGizmoDragging
    /\ im.dragTarget = NoBlock
    /\ im.dragPlane = Null

\* C26: when left presses and releases alternate, every left release leaves
\* the router Idle with camera navigation enabled; a drag of a block starts
\* only on a pointer-move made with a candidate block pending, and a drag of
\* the gizmo only on a left press.
C26_ReleaseReturnsToIdle ==
    [][ /\ (button = "down" /\ button' = "up") => (Idle' /\ im'.controlsEnabled)
        /\ (~im.isDragging /\ im'.isDragging)
              => (im.pendingBlock # NoBlock /\ ~im.isGizmoDragging /\ button = "down" /\ Move)
        /\ (~im.isGizmoDragging /\ im'.isGizmoDragging)
              => (button = "up" /\ button' = "down") ]_vars

\* The button is up again after a drag moved block 0 and after a rotation,
\* and the router is Idle.
C26_Witness ==
    /\ button = "up"
    /\ nDrag > 0
    /\ nRot > 0
    /\ block[Scene[1]].position # ToReal(startPositions[Scene[1]])
    /\ Idle
    /\ im.controlsEnabled

----------------------------------------------------------------------------
(* C27: the drag threshold *)

\* The router's PendingBlock state: a candidate block is recorded and no drag
\* of a block or of the gizmo has started.
PendingBlock ==
    /\ im.pendingBlock # NoBlock
    /\ ~im.isDragging
    /\ ~im.isGizmoDragging

\* This step is the handling of the pointer-move e.
MoveStep(e) ==
    /\ Commit(onPointerMove(World, e))
    /\ clicking' = (clicking /\ ~DistAtLeast(e.client, im.mouseDownPos, mouseMoveThreshold))
    /\ button' = button

\* The pointer of the move e is 3 px or more from the press position.
PastThreshold(e) ==
    (e.client[1] - im.mouseDownPos[1]) * (e.client[1] - im.mouseDownPos[1])
      + (e.client[2] - im.mouseDownPos[2]) * (e.client[2] - im.mouseDownPos[2]) >= 3 * 3

\* Where the pointer of the move e puts the target of a drag: the position it
\* was picked up at plus the pointer's displacement on the drag plane, on the
\* grid and not below the floor.
Followed(e) ==
    LET p == VAdd(im.dragTargetStartPos, e.delta)
    IN  << RoundReal(p[1]), Max(0, RoundReal(p[2])), RoundReal(p[3]) >>

\* C27: a pointer-move made in PendingBlock starts the drag of the candidate
\* when the pointer is 3 px or more from the press position, and otherwise
\* leaves the router in PendingBlock with the same candidate and every block
\* where it is; a pointer-move made in Dragging leaves the router in Dragging
\* with the same target and, when the drag is of one block and the ray meets
\* the drag plane, puts the target where the pointer is, whatever the
\* pointer's distance from the press position.
C27_DragThreshold ==
    [][ (PendingBlock \/ im.isDragging) =>
          \A e \in MoveEvents(CamDirs, DragDeltas, {HalfTurn \div 4}) :
              MoveStep(e) =>
                IF PendingBlock
                THEN IF PastThreshold(e)
                     THEN /\ im'.isDragging
                          /\ im'.dragTarget = im.pendingBlock
                          /\ nDrag' = nDrag + 1
                     ELSE /\ ~im'.isDragging
                          /\ ~im'.isGizmoDragging
                          /\ im'.pendingBlock = im.pendingBlock
                          /\ nDrag' = nDrag
                          /\ Placement' = Placement
                ELSE im.isGizmoDragging
                     \/ /\ im'.isDragging
                        /\ im'.dragTarget = im.dragTarget
                        /\ nDrag' = nDrag
                        /\ (e.hit /\ ~im.isGroupDrag)
                              => block'[im.dragTarget].position = Followed(e) ]_vars

\* A drag is in progress and has moved its target away from the place it was
\* picked up at: a pointer-move followed the one that crossed the threshold.
C27_Witness ==
    /\ im.isDragging
    /\ im.hasMovedPastThreshold
    /\ im.dragTarget # NoBlock
    /\ ~im.isGroupDrag
    /\ block[im.dragTarget].position # im.dragTargetStartPos

----------------------------------------------------------------------------
(* C28: the gizmo drag turns the group a quarter per 45 degrees *)

\* The angle of least magnitude that differs from d by a whole number of
\* turns (d itself when it is a half turn).
LeastTurn(d) ==
    IF Abs(d) <= HalfTurn THEN d
    ELSE IF d > 0 THEN d - 2 * HalfTurn ELSE d + 2 * HalfTurn

\* The accumulator after the angle of the move e has been added.
Added(e) == im.gizmoAccumulatedAngle + LeastTurn(e.angle - im.gizmoDragStartAngle)

\* This step leaves every block as it is and accepts no rotation.
NothingTurns ==
    /\ block' = block
    /\ nRot' = nRot

\* This step accepts exactly one rotateGroup, of the selection group about
\* the axis of the ring in the sign of the accumulated angle acc.
OneQuarterTurn(acc) ==
    /\ nRot' = nRot + 1
    /\ hist'.group = im.selectedGroup
    /\ hist'.axis = VScale(im.gizmoDragAxis, IF acc > 0 THEN 1 ELSE -1)
    /\ StartTurning = Range(im.selectedGroup)

\* C28 (as stated): a pointer-move of a gizmo drag whose ray meets the
\* rotation plane adds the wrapped difference of angles to the accumulator;
\* when the sum has magnitude 45 degrees or more, one quarter turn of the
\* selection group about the ring's axis in the sign of the sum is accepted
\* and the accumulator is 0; otherwise the accumulator is the sum and nothing
\* turns.
C28_GizmoQuarterTurns ==
    [][ (im.isGizmoDragging /\ im.centerBlock # NoBlock) =>
          \A e \in MoveEvents({InitialCamera}, {Zero3}, GizmoAngles) :
              (e.hit /\ MoveStep(e)) =>
                /\ im'.gizmoDragStartAngle = e.angle
                /\ IF 4 * Abs(Added(e)) >= HalfTurn
                   THEN /\ im'.gizmoAccumulatedAngle = 0
                        /\ OneQuarterTurn(Added(e))
                   ELSE /\ im'.gizmoAccumulatedAngle = Added(e)
                        /\ NothingTurns ]_vars

\* C28 (amended): as above, but when the sum has magnitude 45 degrees or
\* more while a member of the selection group is animating, the accumulator
\* is set to 0 and nothing turns.
C28_GizmoQuarterTurnsAtRest ==
    [][ (im.isGizmoDragging /\ im.centerBlock # NoBlock) =>
          \A e \in MoveEvents({InitialCamera}, {Zero3}, GizmoAngles) :
              (e.hit /\ MoveStep(e)) =>
                /\ im'.gizmoDragStartAngle = e.angle
                /\ IF 4 * Abs(Added(e)) >= HalfTurn
                   THEN /\ im'.gizmoAccumulatedAngle = 0
                        /\ IF MemberAnimating THEN NothingTurns
                           ELSE OneQuarterTurn(Added(e))
                   ELSE /\ im'.gizmoAccumulatedAngle = Added(e)
                        /\ NothingTurns ]_vars

\* A gizmo drag about the vertical ring has turned the group a quarter in
\* the negative sense, and the turn is under way.
C28_Witness ==
    /\ im.isGizmoDragging
    /\ im.gizmoDragAxis = <<0, 1, 0>>
    /\ im.gizmoAccumulatedAngle = 0
    /\ hist.axis = <<0, -1, 0>>
    /\ hist.group = im.selectedGroup
    /\ Len(im.selectedGroup) = 2
    /\ MemberAnimating

----------------------------------------------------------------------------
(* C29: a frame advances every animation before it scans for collisions *)

\* C29: the frame in which the last running animation completes commits the
\* pending cells and the target position of every block that was animating,
\* and scans for collisions after that: the recorded collision set is the set
\* of blocks that share a cell in the state the frame leaves, and it is
\* delivered to the host in that frame when it differs from the set recorded
\* before.
C29_ScanAfterAnimations ==
    [][ (Tick /\ AnimatingNow /\ ~AnimatingNow') =>
          /\ \A b \in Range(blocks) :
                /\ block[b].isAnimating => block'[b].cells = block[b].pendingCells
                /\ block[b].posAnimating => block'[b].position = block[b].posAnimTargetPos
          /\ Range(im'.lastCollidingIdsStr) = CollidingBlocks'
          /\ IF CollidingBlocks' = Range(im.lastCollidingIdsStr)
             THEN col' = << >>
             ELSE col' = << CollidingBlocks' >> ]_vars

\* The frame that completed the second rotation of a run has delivered a
\* non-empty collision set: the overlap the turned cells make.
C29_Witness ==
    /\ ~AnimatingNow
    /\ nRot = MaxRotations
    /\ col = << CollidingBlocks >>
    /\ CollidingBlocks = SceneIds
    /\ now = 0

----------------------------------------------------------------------------
(* C30: every animation ends, on the first frame 200 ms after its start *)

\* This step is the frame that comes dt ms after the previous event.
TickStep(dt) ==
    LET w == update([World EXCEPT !.now = now + dt])
    IN  /\ Commit(IF AnyAnimating(w) THEN w ELSE [w EXCEPT !.now = 0])
        /\ UNCHANGED <<clicking, button>>

\* C30: a frame ends an orientation animation, and a position animation,
\* exactly when 200 ms or more have passed since the animation started,
\* however many frames came before, and the frame that ends a position
\* animation leaves the block at the stored target; and while frames keep
\* coming the blocks that animate all come to rest.
C30_AnimationsEnd ==
    /\ [][ AnimatingNow =>
            \A dt \in TickDeltas :
                TickStep(dt) =>
                  \A b \in Range(blocks) :
                      /\ block[b].isAnimating
                           => (block'[b].isAnimating <=> now + dt - block[b].animStartTime < 200)
                      /\ block[b].posAnimating
                           => /\ block'[b].posAnimating
                                   <=> now + dt - block[b].posAnimStartTime < 200
                              /\ ~block'[b].posAnimating
                                   => block'[b].position = block[b].posAnimTargetPos ]_vars
    /\ AnimatingNow ~> ~AnimatingNow

\* The rotation of the group of two has ended: both blocks are at rest with
\* their cells turned, and block 0, which is not the centre, has been carried
\* to another place.
C30_Witness ==
    /\ ~AnimatingNow
    /\ nRot = 1
    /\ im.selectedGroup = <<Scene[2], Scene[1]>>
    /\ block[Scene[1]].position # ToReal(startPositions[Scene[1]])
    /\ block[Scene[1]].cells # BLOCK_DEFINITIONS[Scene[1]]
    /\ block[Scene[2]].cells # BLOCK_DEFINITIONS[Scene[2]]

----------------------------------------------------------------------------
(* C31: rotateBlock during an orientation animation *)

\* C31: rotateBlock about any cardinal axis on a block whose orientation
\* animation is in progress returns the block as it is (pending cells, target
\* rotation and start time included), and the cells the animation commits
\* when it completes after the call are the cells before the first rotation
\* turned a quarter about the first rotation's axis.
C31_RotateBlockRefused ==
    \A b \in Range(blocks) :
        block[b].isAnimating =>
          \A i \in 1..Len(cardinals) :
              \A again \in {rotateBlock(block[b], cardinals[i], now)} :
                  /\ again.pendingCells = block[b].pendingCells
                  /\ again.animTargetQuat = block[b].animTargetQuat
                  /\ again.animStartTime = block[b].animStartTime
                  /\ again = block[b]
                  /\ b \in Range(hist.group)
                       => updateAnimation(again, again.animStartTime + 200).cells
                            = TurnedCells(b)

\* The orientation animation of a block of the last rotation is part of the
\* way through, with pending cells that differ from its cells.
C31_Witness ==
    \E b \in Range(hist.group) :
        /\ block[b].isAnimating
        /\ now > block[b].animStartTime
        /\ block[b].pendingCells # block[b].cells
        /\ \E i \in 1..Len(cardinals) : cardinals[i] # block[b].animTargetQuat

----------------------------------------------------------------------------
(* C32: the cells are committed when the orientation animation completes *)

\* C32: the step that starts a block's orientation animation and every step
\* made while it runs leave the block's cell list as it is, the pending list
\* being the cells turned a quarter about the axis of the rotation; the step
\* that ends the animation is a frame, which puts the pending list in place
\* of the cell list and clears the pending list; no other step changes a
\* cell list.
C32_CellsCommittedAtCompletion ==
    [][ \A b \in Range(blocks) :
          /\ block'[b].isAnimating
               => /\ block'[b].cells = block[b].cells
                  /\ block'[b].pendingCells =
                       [i \in 1..Len(block[b].cells) |->
                          QuarterTurn(block[b].cells[i], block'[b].animTargetQuat)]
          /\ (block[b].isAnimating /\ ~block'[b].isAnimating)
               => /\ Tick
                  /\ block'[b].cells = block[b].pendingCells
                  /\ block'[b].pendingCells = Null
          /\ block'[b].cells # block[b].cells
               => (block[b].isAnimating /\ ~block'[b].isAnimating) ]_vars

\* One block has completed a rotation and holds the turned cells with no
\* pending list, while the other is part of the way through its own with the
\* cells of the catalog still in place.
C32_Witness ==
    \E b \in SceneIds, c \in SceneIds :
        /\ ~block[b].isAnimating
        /\ block[b].cells # BLOCK_DEFINITIONS[b]
        /\ block[b].pendingCells = Null
        /\ block[c].isAnimating
        /\ now > block[c].animStartTime
        /\ block[c].cells = BLOCK_DEFINITIONS[c]

----------------------------------------------------------------------------
(* C33: single drag and group drag *)

\* Where the pointer of the move e puts member m of a group drag: the place
\* m was picked up at, displaced as the drag target is and not below the
\* floor.
FollowedBy(m, e) ==
    LET d == VSub(Followed(e), im.dragTargetStartPos)
        s == DragStartPosition(m)
    IN  << s[1] + d[1], Max(0, s[2] + d[2]), s[3] + d[3] >>

\* C33: the pointer-move that starts a drag makes it a group drag exactly when
\* the candidate block is a member of the selection group; a pointer-move or
\* a release of a single drag changes the position of no block but the drag
\* target; a pointer-move of a group drag whose ray meets the drag plane puts
\* every member of the selection group where the pointer carries it.
C33_SingleOrGroupDrag ==
    [][ /\ (~im.isDragging /\ im'.isDragging)
             => (im'.isGroupDrag <=> im.pendingBlock \in Range(im.selectedGroup))
        /\ (im.isDragging /\ ~im.isGroupDrag /\ ~im.isGizmoDragging /\ (Move \/ Release))
             => \A b \in Range(blocks) \ {im.dragTarget} :
                    block'[b].position = block[b].position
        /\ (im.isDragging /\ im.isGroupDrag /\ ~im.isGizmoDragging)
             => \A e \in MoveEvents(CamDirs, DragDeltas, {HalfTurn \div 4}) :
                    (e.hit /\ MoveStep(e))
                      => \A m \in Range(im.selectedGroup) :
                             block'[m].position = FollowedBy(m, e) ]_vars

----------------------------------------------------------------------------
(* C36: the start positions of a group drag *)

\* C36: at every pointer-move of a group drag whose ray meets the drag plane,
\* every member of the selection group has a recorded drag start position,
\* and the handler raises no error.
C36_GroupDragStartsRecorded ==
    [][ (im.isDragging /\ im.isGroupDrag /\ ~im.isGizmoDragging)
          => \A e \in MoveEvents(CamDirs, DragDeltas, {HalfTurn \div 4}) :
                 (e.hit /\ MoveStep(e))
                   => /\ Range(im.selectedGroup) \subseteq DOMAIN im.groupDragStartPositions
                      /\ ~threw' ]_vars

----------------------------------------------------------------------------
(* C34: a pointer-move whose ray misses the plane of the gesture *)

\* C34: a pointer-move made during a gizmo drag or a block drag whose ray
\* misses the rotation plane or the drag plane changes no block, leaves the
\* gizmo's accumulated angle and reference angle as they are, starts no
\* rotation and raises no error.
C34_MissedPlaneIgnored ==
    [][ (im.isGizmoDragging \/ im.isDragging)
          => \A e \in MoveEvents(CamDirs, DragDeltas, {HalfTurn \div 4}) :
                 (~e.hit /\ MoveStep(e))
                   => /\ block' = block
                      /\ im'.gizmoAccumulatedAngle = im.gizmoAccumulatedAngle
                      /\ im'.gizmoDragStartAngle = im.gizmoDragStartAngle
                      /\ nRot' = nRot
                      /\ ~threw' ]_vars

\* A block drag that has carried its target away from where it was picked
\* up: a move that misses the drag plane is told from one that meets it.
C34_Witness ==
    /\ im.isDragging
    /\ ~im.isGizmoDragging
    /\ im.dragTarget # NoBlock
    /\ im.dragPlane # Null
    /\ block[im.dragTarget].position # im.dragTargetStartPos

----------------------------------------------------------------------------
(* C35: the gizmo drag and the block gestures exclude each other *)

\* C35: after every step the router is not in GizmoDragging while a candidate
\* block is recorded or a block drag is active, and every left release leaves
\* no candidate block recorded, so that the pointer-move that follows a
\* release starts no block drag.
C35_GizmoDragExclusive ==
    [][ /\ im'.isGizmoDragging => (im'.pendingBlock = NoBlock /\ ~im'.isDragging)
        /\ \A e \in ReleaseEvents({NoBlock, Scene[1]}) :
               LeftRelease(e) => im'.pendingBlock = NoBlock ]_vars

----------------------------------------------------------------------------
(* C37: what the host was told about collisions *)

\* C37: at the end of every frame after which no block is animating, the id
\* set the host received last through onCollisionChanged (the empty set when
\* it received none) is the set of blocks that share a world cell with
\* another block.
C37_HostKnowsCollisions ==
    [][ (Tick /\ ~AnimatingNow')
          => /\ hostColliding' = CollidingBlocks'
             /\ hostColliding' = detectCollisions(World') ]_vars

\* A rotation that started with no two blocks overlapping has come to rest
\* with blocks sharing a cell, and the frame that completed it told the host.
C37_Witness ==
    /\ ~AnimatingNow
    /\ hist.group # << >>
    /\ \A b, c \in Range(blocks) :
           b # c => Range(getWorldCellPositions(hist.block[b]))
                    \cap Range(getWorldCellPositions(hist.block[c])) = {}
    /\ CollidingBlocks # {}
    /\ hostColliding = CollidingBlocks

----------------------------------------------------------------------------
(* C38: the cells of a block stay as many and distinct *)

\* No two entries of the cell list are the same cell.
DistinctCells(cells) ==
    \A i, j \in 1..Len(cells) : cells[i] = cells[j] => i = j

\* C38: every block has as many cells as its catalog entry and no cell
\* twice, in its committed list and in its pending list; a quarter turn of
\* any catalog entry about any cardinal axis gives as many cells, no cell
\* twice; and detectCollisions never returns a set of exactly one id.
C38_CellsStayDistinct ==
    /\ \A b \in Range(blocks) :
          /\ Len(block[b].cells) = Len(BLOCK_DEFINITIONS[b])
          /\ DistinctCells(block[b].cells)
          /\ block[b].pendingCells # Null
               => /\ Len(block[b].pendingCells) = Len(block[b].cells)
                  /\ DistinctCells(block[b].pendingCells)
    /\ \A id \in DOMAIN BLOCK_DEFINITIONS :
          \A i \in 1..Len(cardinals) :
              \A turned \in {rotateBlock(NewBlock(BLOCK_DEFINITIONS[id], Zero3),
                                          cardinals[i], 0).pendingCells} :
                  /\ Len(turned) = Len(BLOCK_DEFINITIONS[id])
                  /\ DistinctCells(turned)
    /\ Cardinality(detectCollisions(World)) # 1

\* Two rotations have been made and are complete, a block's cells are not
\* its catalog cells, and blocks share a world cell.
C38_Witness ==
    /\ nRot = MaxRotations
    /\ ~AnimatingNow
    /\ \E b \in Range(blocks) : block[b].cells # BLOCK_DEFINITIONS[b]
    /\ detectCollisions(World) # {}

----------------------------------------------------------------------------
(* C39: the pivot of the gizmo *)

\* C39: the first cell offset of every block is (0, 0, 0), in its committed
\* list and in its pending list, as it is in every catalog entry and as every
\* quarter turn leaves it; getCenterCellWorldPos is the block's position plus
\* (0, 0.5, 0); and a member of the last rotated group whose position is the
\* one it started the rotation with has its pivot where it was.
C39_PivotStable ==
    /\ \A id \in DOMAIN BLOCK_DEFINITIONS : BLOCK_DEFINITIONS[id][1] = Zero3
    /\ \A i \in 1..Len(cardinals) : RotateCell(Zero3, cardinals[i]) = Zero3
    /\ \A b \in Range(blocks) :
          /\ block[b].cells[1] = Zero3
          /\ block[b].pendingCells # Null => block[b].pendingCells[1] = Zero3
          /\ getCenterCellWorldPos(block[b]) = VAdd(block[b].position, <<0, Unit \div 2, 0>>)
          /\ (b \in Range(hist.group) /\ block[b].position = hist.block[b].position)
               => getCenterCellWorldPos(block[b]) = getCenterCellWorldPos(hist.block[b])

\* The center of a rotation that is complete stands where it started, with
\* cells that are no longer the ones it started with.
C39_Witness ==
    /\ RotationComplete
    /\ hist.center \in Range(hist.group)
    /\ block[hist.center].position = hist.block[hist.center].position
    /\ block[hist.center].cells # hist.block[hist.center].cells
    /\ block[hist.center].cells # BLOCK_DEFINITIONS[hist.center]

----------------------------------------------------------------------------
(* C40: a drag stays in its plane *)

\* C40: when drags start with every block at rest, the pointer-move that
\* starts a drag, every pointer-move of the drag and the release that ends it
\* leave every block the drag moves (the target, or every member of the
\* selection group) with the coordinate along the normal of the drag plane
\* that the block had when the drag picked it up.
C40_DragStaysInPlane ==
    [][ /\ (~im.isDragging /\ im'.isDragging)
             => \A b \in Range(blocks) :
                    block'[b].position[im'.dragPlane.axis]
                      = block[b].position[im'.dragPlane.axis]
        /\ (im.isDragging /\ im.dragPlane # Null /\ ~im.isGizmoDragging /\ (Move \/ Release))
             => \A b \in DraggedBlocks :
                    block'[b].position[im.dragPlane.axis]
                      = DragStartPosition(b)[im.dragPlane.axis] ]_vars

====
